---- MODULE Spec2Model ----
(***************************************************************************)
(* The output-emission core of the linker (src/src/elf_writer.rs).         *)
(*                                                                         *)
(* Eleven specifications share this module:                                *)
(*   SpecSplit  Stage A of the slice partitioner, one loop iteration per   *)
(*              step, over arbitrary section layouts;                      *)
(*   Spec       Output::new / set_size / write: provisioning in the        *)
(*              background or inline, the two partition stages, the        *)
(*              parallel per-contributor writers, the .eh_frame_hdr sort   *)
(*              and make_executable (LiveSpec adds the scheduling of the   *)
(*              spawned provisioning task);                                *)
(*   SpecObj    ObjectLayout::write, one section slot / PLT relocation /   *)
(*              loaded symbol per step, with its PltGotWriter,             *)
(*              RelocationWriter and SymbolTableWriter residuals;          *)
(*   SpecGot    one call of PltGotWriter::process_resolution, with the     *)
(*              bytes it writes to .got, .plt and .rela.dyn;               *)
(*   SpecRel    ObjectLayout::apply_relocations over one section, one      *)
(*              relocation per step, with the bytes apply_relocation       *)
(*              writes;                                                    *)
(*   SpecEh     ObjectLayout::write_eh_frame_data, one record of           *)
(*              .eh_frame per step;                                        *)
(*   SpecSort   sort_eh_frame_hdr_entries over the bytes of the mmap;      *)
(*   SpecDyn    InternalLayout::write from the .dynamic table on, one      *)
(*              write_dynamic_entry call per step;                         *)
(*   SpecShdr   write_section_headers and write_section_header_strings,    *)
(*              one section per step;                                      *)
(*   SpecSym    a SymbolTableWriter, one define_symbol call per step,      *)
(*              then check_exhausted.                                      *)
(*                                                                         *)
(* A u64 whose width matters is the sequence of its eight bytes, least     *)
(* significant first.                                                      *)
(*                                                                         *)
(* A slice of the mmap is the record [lo, len]: the cells lo .. lo+len-1.  *)
(* In Spec one cell of the mmap stands for one unit of the section it      *)
(* lies in (the EhFrameHdr header, one EhFrameHdrEntry, one byte).         *)
(***************************************************************************)
EXTENDS Integers, Sequences, FiniteSets, TLC

VARIABLES
    \* ---- SpecSplit: split_output_into_sections, step by step
    sa_pc,              \* "idle" | "sort" | "loop" | "returned" | "panicked"
    sa_layouts,         \* layout.section_layouts: id -> [file_offset, file_size]
    sa_mmap_len,        \* mmap.len()
    sa_allocs,          \* section_allocations
    sa_i,               \* number of allocations the for loop has consumed
    sa_st,              \* [data, offset, section_data, status]
    \* ---- Spec: Output
    num_threads,        \* args.num_threads
    creator,            \* FileCreator: [kind, sender, file_size]
    spawned,            \* the closure given to rayon::spawn: <<>> or <<size>>
    chan,               \* results in flight on the mpsc channel
    file,               \* the output path: [exists, len, executable]
    mapped,             \* a SizedOutput (file + mmap) exists
    mmap,               \* the cells of the mapping (the file's contents)
    pc,                 \* position of the thread that owns the Output
    result,             \* what Output::write returned: "none" | "ok" | an error
    layout,             \* the Layout handed to write
    section_buffers,    \* id -> slice           (Stage A)
    writable_buckets,   \* part -> slice         (Stage B, after every take_mut)
    files_and_buffers,  \* file -> part -> slice (take_mut)
    wpc,                \* per contributor: "pending" | "running" | "ok" | "err" | "panic" | "skipped"
    wpos,               \* per contributor: parts written so far
    written_by,         \* history: cell -> the contributors that wrote it
    events,             \* history: "mapped", "start", "finish", "sort", "chmod" in the
                        \*   order they happened
    calls,              \* history: [set_size, accepted, sent]: calls made, calls that
                        \*   returned, results sent on the channel
    \* ---- SpecObj: ObjectLayout::write
    o_pc,               \* "idle" | "new_plt_got" | "new_relocation" | "sections"
                        \*   | "plt_relocations" | "loaded_symbols" | "symtab_new"
                        \*   | "symbols" | "validate" | "done" | "panicked"
    o_i,                \* index of the next item of the loop o_pc names
    o_in,               \* self and layout.args(): how many sections, PLT relocations
                        \*   and loaded symbols there are, how many of the sections and
                        \*   symbols have a resolution with a got_address,
                        \*   is_relocatable, strip_all
    o_buf,              \* the sizes of the buffers handed to write, known once a
                        \*   writer has taken them (NotTaken before)
    o_w,                \* the writers' residuals: [got, plt, rela_plt, rela_dyn,
                        \*   is_active, local_entries, global_entries, strings]
    o_result,           \* what write returned: "none" | "ok" | an error
    o_hist,             \* history: [presented, applied, defined, absolute, got_relative]
    \* ---- SpecGot: one call of PltGotWriter::process_resolution
    g_pc,               \* "idle" | "call" | "returned" | "panicked"
    g_in,               \* the call: [res, tls], and the writers before it: [w]
    g_w,                \* the PltGotWriter and the RelocationWriter it is given
    g_result,           \* what the call returned: "none" | "ok" | an error
    \* ---- SpecRel: ObjectLayout::apply_relocations over one section
    r_pc,               \* "idle" | "loop" | "done" | "panicked"
    r_in,               \* [args, section_address, relocations, out, rw]: the call
    r_i,                \* index of the next relocation of the for loop
    r_modifier,         \* modifier: "Normal" | "SkipNextRelocation"
    r_out,              \* out: the section's bytes in the output
    r_rw,               \* the RelocationWriter: [rela_dyn, rela_pos, is_active]
    r_result,           \* what apply_relocations returned: "none" | "ok" | an error
    r_log,              \* history: per relocation the loop took, what it did with
                        \*   it and out and the writer before and after
    \* ---- SpecEh: ObjectLayout::write_eh_frame_data
    e_pc,               \* "idle" | "loop" | "done" | "panicked"
    e_in,               \* [prefixes, data_len, relocations, headers_len, output_len]
    e_st,               \* the locals: [record, input_pos, output_pos, header_offset,
                        \*   next_rel, cies]
    e_result,           \* what write_eh_frame_data returned: "none" | "ok" | an error
    e_log,              \* history: per record the loop took, what it did with it
                        \*   (cie_offset: the bytes [4..8) of a copied FDE)
    \* ---- SpecSort: the post-pass of SizedOutput::write, on bytes
    h_pc,               \* "idle" | "sort" | "chmod" | "done" | "panicked"
    h_in,               \* [section_layouts, entries, mmap]: the file as the writers left it
    h_mmap,             \* the bytes of the mmap
    h_result,           \* what SizedOutput::write returned: "none" | "ok" | an error
    \* ---- SpecDyn: InternalLayout::write from the .dynamic table on
    d_pc,               \* "idle" | "pie" | "entries" | "validate" | "done" | "panicked"
    d_in,               \* [pie, layout, dynamic_len]
    d_out,              \* the .dynamic buffer: [table, next]
    d_calls,            \* the calls of write_dynamic_entry made
    d_result,           \* what InternalLayout::write returned: "none" | "ok" | an error
    \* ---- SpecShdr: write_section_headers and write_section_header_strings
    sh_pc,              \* "idle" | "cast" | "headers" | "strings" | "done"
    sh_in,              \* [sections, headers_len, shstrtab_len]
    sh_hdr,             \* [entries, next, name_offset, status]: the header table and its iterator
    sh_str,             \* [bytes, taken, status]: .shstrtab and the bytes taken from it
    sh_i,               \* index of the section sections_do visits next
    sh_result,          \* "none" | "ok" | "panicked"
    \* ---- SpecSym: SymbolTableWriter, call by call
    y_pc,               \* "idle" | "symbols" | "done"
    y_in,               \* [start_string_offset]
    y_w,                \* the writer: [string_offset, local_entries, global_entries, strings, status]
    y_log,              \* history: the define_symbol calls made: [is_local, name, symbol]
    y_result            \* "none" | "ok" | "err_symtab" | "panicked"

splitVars == <<sa_pc, sa_layouts, sa_mmap_len, sa_allocs, sa_i, sa_st>>
outVars == <<num_threads, creator, spawned, chan, file, mapped, mmap, pc, result,
             layout, section_buffers, writable_buckets, files_and_buffers,
             wpc, wpos, written_by, events, calls>>
objVars == <<o_pc, o_i, o_in, o_buf, o_w, o_result, o_hist>>
gotVars == <<g_pc, g_in, g_w, g_result>>
relVars == <<r_pc, r_in, r_i, r_modifier, r_out, r_rw, r_result, r_log>>
ehVars == <<e_pc, e_in, e_st, e_result, e_log>>
sortVars == <<h_pc, h_in, h_mmap, h_result>>
dynVars == <<d_pc, d_in, d_out, d_calls, d_result>>
shdrVars == <<sh_pc, sh_in, sh_hdr, sh_str, sh_i, sh_result>>
symVars == <<y_pc, y_in, y_w, y_log, y_result>>
lateVars == <<sortVars, dynVars, shdrVars, symVars>>
relocVars == <<gotVars, relVars, ehVars, lateVars>>
SortOthers == <<splitVars, outVars, objVars, gotVars, relVars, ehVars, dynVars, shdrVars, symVars>>
DynOthers == <<splitVars, outVars, objVars, gotVars, relVars, ehVars, sortVars, shdrVars, symVars>>
ShdrOthers == <<splitVars, outVars, objVars, gotVars, relVars, ehVars, sortVars, dynVars, symVars>>
SymOthers == <<splitVars, outVars, objVars, gotVars, relVars, ehVars, sortVars, dynVars, shdrVars>>
vars == <<splitVars, outVars, objVars, relocVars>>

-----------------------------------------------------------------------------
(* Generic helpers *)

Range(f) == {f[x] : x \in DOMAIN f}

RECURSIVE SumOver(_, _)
SumOver(f, S) ==
    IF S = {} THEN 0
    ELSE LET x == CHOOSE y \in S : TRUE IN f[x] + SumOver(f, S \ {x})

-----------------------------------------------------------------------------
(* Slices and the prefix-cut primitive *)

Slice(lo, len) == [lo |-> lo, len |-> len]

\* core::mem::take on a slice, Default::default(): the empty slice
EmptySlice == Slice(0, 0)

CellsOf(s) == s.lo .. (s.lo + s.len - 1)

\* slice_take_prefix_mut(data, n): split_at_mut(n), which panics when n > len
CanTake(s, n) == n <= s.len
TakePrefix(s, n) == Slice(s.lo, n)
TakeRest(s, n) == Slice(s.lo + n, s.len - n)

-----------------------------------------------------------------------------
(* Stage A: split_output_into_sections *)

\* The section identities, in OutputSectionMap (id) order.
SectionIds == <<"text", "data", "eh_frame_hdr">>
SectionIdSet == Range(SectionIds)

\* section_allocations before the sort: one SectionAllocation per section, in id order
SectionAllocations(section_layouts) ==
    [k \in 1..Len(SectionIds) |->
        [id |-> SectionIds[k],
         offset |-> section_layouts[SectionIds[k]].file_offset,
         size |-> section_layouts[SectionIds[k]].file_size]]

\* the sort key (s.offset, s.offset + s.size), compared lexicographically
KeyLeq(a, b) ==
    \/ a.offset < b.offset
    \/ a.offset = b.offset /\ a.offset + a.size <= b.offset + b.size

\* sort_by_key is a stable sort: x goes after every element whose key is <= its own
RECURSIVE InsertByKey(_, _)
InsertByKey(sorted, x) ==
    IF sorted = <<>> THEN <<x>>
    ELSE IF KeyLeq(Head(sorted), x) THEN <<Head(sorted)>> \o InsertByKey(Tail(sorted), x)
    ELSE <<x>> \o sorted

RECURSIVE SortByKey(_)
SortByKey(v) ==
    IF v = <<>> THEN <<>>
    ELSE InsertByKey(SortByKey(SubSeq(v, 1, Len(v) - 1)), v[Len(v)])

\* the state before the for loop: the whole mmap as cursor, offset 0, an empty map
SplitStart(mmap_len) ==
    [data |-> Slice(0, mmap_len),
     offset |-> 0,
     section_data |-> [id \in SectionIdSet |-> EmptySlice],
     status |-> "ok"]

\* A mutation of the loop body: the padding before the section is not skipped.
SplitStep_NoPadding(st, a) ==
    IF st.status # "ok" THEN st
    ELSE IF a.offset < st.offset THEN [st EXCEPT !.status = "panic_backward"]
    ELSE IF ~CanTake(st.data, a.size) THEN [st EXCEPT !.status = "panic_slice"]
    ELSE [data |-> TakeRest(st.data, a.size),
          offset |-> a.offset + a.size,
          section_data |-> [st.section_data EXCEPT ![a.id] = TakePrefix(st.data, a.size)],
          status |-> "ok"]

\* A mutation of the loop body: saturating_sub in place of checked_sub, so
\* an offset that went backward gives padding 0.
SplitStep_Saturating(st, a) ==
    IF st.status # "ok" THEN st
    ELSE LET padding == IF a.offset < st.offset THEN 0 ELSE a.offset - st.offset IN
         IF ~CanTake(st.data, padding) THEN [st EXCEPT !.status = "panic_slice"]
         ELSE LET data1 == TakeRest(st.data, padding) IN
              IF ~CanTake(data1, a.size) THEN [st EXCEPT !.status = "panic_slice"]
              ELSE [data |-> TakeRest(data1, a.size),
                    offset |-> a.offset + a.size,
                    section_data |->
                        [st.section_data EXCEPT ![a.id] = TakePrefix(data1, a.size)],
                    status |-> "ok"]

\* one iteration of `for a in section_allocations`
SplitStep(st, a) ==
    IF st.status # "ok" THEN st
    ELSE IF a.offset < st.offset THEN [st EXCEPT !.status = "panic_backward"]
    ELSE LET padding == a.offset - st.offset IN
         IF ~CanTake(st.data, padding) THEN [st EXCEPT !.status = "panic_slice"]
         ELSE LET data1 == TakeRest(st.data, padding) IN
              IF ~CanTake(data1, a.size) THEN [st EXCEPT !.status = "panic_slice"]
              ELSE [data |-> TakeRest(data1, a.size),
                    offset |-> a.offset + a.size,
                    section_data |->
                        [st.section_data EXCEPT ![a.id] = TakePrefix(data1, a.size)],
                    status |-> "ok"]

RECURSIVE SplitLoop(_, _)
SplitLoop(st, allocs) ==
    IF allocs = <<>> THEN st
    ELSE SplitLoop(SplitStep(st, Head(allocs)), Tail(allocs))

\* the whole function: [section_data, status]
split_output_into_sections(section_layouts, mmap_len) ==
    SplitLoop(SplitStart(mmap_len), SortByKey(SectionAllocations(section_layouts)))

-----------------------------------------------------------------------------
(* SpecSplit: Stage A over every small section layout *)

MaxOffset == 3
MaxSize == 2

SplitLayouts ==
    [SectionIdSet -> [file_offset : 0..MaxOffset, file_size : 0..MaxSize]]

\* the lengths of the mmap: long enough for every layout, or too short for some
SplitMmapLens == {MaxOffset, MaxOffset + MaxSize}

SplitIdle ==
    /\ sa_pc = "idle"
    /\ sa_layouts = <<>>
    /\ sa_mmap_len = 0
    /\ sa_allocs = <<>>
    /\ sa_i = 0
    /\ sa_st = SplitStart(0)

SplitInit ==
    /\ sa_pc = "sort"
    /\ sa_layouts \in SplitLayouts
    /\ sa_mmap_len \in SplitMmapLens
    /\ sa_allocs = <<>>
    /\ sa_i = 0
    /\ sa_st = SplitStart(sa_mmap_len)

\* lines 208-216: collect the allocations and sort them
SA_Sort ==
    /\ sa_pc = "sort"
    /\ sa_allocs' = SortByKey(SectionAllocations(sa_layouts))
    /\ sa_pc' = "loop"
    /\ UNCHANGED <<outVars, objVars, relocVars, sa_layouts, sa_mmap_len, sa_i, sa_st>>

\* lines 224-234: one iteration of the loop
SA_Iterate ==
    /\ sa_pc = "loop"
    /\ sa_i < Len(sa_allocs)
    /\ LET st == SplitStep(sa_st, sa_allocs[sa_i + 1]) IN
        /\ sa_st' = st
        /\ sa_pc' = IF st.status = "ok" THEN "loop" ELSE "panicked"
    /\ sa_i' = sa_i + 1
    /\ UNCHANGED <<outVars, objVars, relocVars, sa_layouts, sa_mmap_len, sa_allocs>>

\* line 235: the loop is over, section_data is returned
SA_Return ==
    /\ sa_pc = "loop"
    /\ sa_i = Len(sa_allocs)
    /\ sa_pc' = "returned"
    /\ UNCHANGED <<outVars, objVars, relocVars, sa_layouts, sa_mmap_len, sa_allocs, sa_i, sa_st>>

SplitNext == SA_Sort \/ SA_Iterate \/ SA_Return

-----------------------------------------------------------------------------
(* The Layout handed to Output::write in Spec *)

\* section_part_layouts in output order (higher alignment first), and each
\* part's section
PartOrder == <<"text_hi", "text_lo", "eh_frame_hdr">>
PartSet == Range(PartOrder)
PartSection(p) == IF p = "eh_frame_hdr" THEN "eh_frame_hdr" ELSE "text"

\* layout.file_layouts, in order
Files == 1..2

MaxPartSize == 1

NoSizes == [p \in PartSet |-> 0]

\* FileLayout::Object / Internal have file_sizes; FileLayout::Dynamic has none
FileLayouts ==
    [kind : {"Object"}, file_sizes : [PartSet -> 0..MaxPartSize]]
    \cup {[kind |-> "Dynamic", file_sizes |-> NoSizes]}

HasFileSizes(fl) == fl.kind # "Dynamic"

AlignUp(n, a) == ((n + a - 1) \div a) * a

\* The layout the sizes of the contributors give: a part holds its
\* contributors' bytes, a section its parts; .eh_frame_hdr comes first in the
\* file, .data is empty, .text starts at the next even offset.
MakeLayout(fls) ==
    LET part_size == [p \in PartSet |-> SumOver([f \in Files |-> fls[f].file_sizes[p]], Files)]
        sec_size == [id \in SectionIdSet |->
                        SumOver(part_size, {p \in PartSet : PartSection(p) = id})]
        sec_off == [id \in SectionIdSet |->
                        CASE id = "eh_frame_hdr" -> 0
                          [] id = "data" -> sec_size["eh_frame_hdr"]
                          [] OTHER -> AlignUp(sec_size["eh_frame_hdr"], 2)]
    IN [section_layouts |->
            [id \in SectionIdSet |-> [file_offset |-> sec_off[id], file_size |-> sec_size[id]]],
        section_part_layouts |-> [p \in PartSet |-> [file_size |-> part_size[p]]],
        file_layouts |-> fls]

Layouts == {MakeLayout(fls) : fls \in [Files -> FileLayouts]}

\* the size the layout computes for the file
FileSizeOf(l) ==
    l.section_layouts["text"].file_offset + l.section_layouts["text"].file_size

-----------------------------------------------------------------------------
(* Stage B: split_buffers_by_alignment, and take_mut per contributor *)

\* the closure of lines 252-254:
\* slice_take_prefix_mut(section_buffers.get_mut(section_id), rec.file_size)
SplitPartStep(st, p, rec) ==
    IF st.status # "ok" THEN st
    ELSE LET buf == st.section_buffers[PartSection(p)] IN
         IF ~CanTake(buf, rec.file_size) THEN [st EXCEPT !.status = "panic_slice"]
         ELSE [st EXCEPT !.parts[p] = TakePrefix(buf, rec.file_size),
                         !.section_buffers[PartSection(p)] = TakeRest(buf, rec.file_size)]

\* OutputSectionPartMap::output_order_map: the closure on every part, in output order
RECURSIVE output_order_map(_, _, _)
output_order_map(st, order, part_layouts) ==
    IF order = <<>> THEN st
    ELSE output_order_map(SplitPartStep(st, Head(order), part_layouts[Head(order)]),
                          Tail(order), part_layouts)

\* [parts, section_buffers, status]
split_buffers_by_alignment(bufs, l) ==
    output_order_map([section_buffers |-> bufs,
                      parts |-> [p \in PartSet |-> EmptySlice],
                      status |-> "ok"],
                     PartOrder, l.section_part_layouts)

\* OutputSectionPartMap::take_mut(sizes): the front sizes[p] cells of every part
CanTakeMut(buckets, sizes) == \A p \in PartSet : CanTake(buckets[p], sizes[p])
TakeMutTaken(buckets, sizes) == [p \in PartSet |-> TakePrefix(buckets[p], sizes[p])]
TakeMutRest(buckets, sizes) == [p \in PartSet |-> TakeRest(buckets[p], sizes[p])]

\* OutputSectionPartMap::with_size: a map of empty slices
EmptyPartMap == [p \in PartSet |-> EmptySlice]

\* A mutation of the map closure: every contributor is given the buckets as
\* they were, without taking its own share out of them.
ZipStep_Shared(st, f, fl) ==
    IF st.status # "ok" THEN st
    ELSE IF ~HasFileSizes(fl) THEN [st EXCEPT !.bufs[f] = EmptyPartMap]
    ELSE IF ~CanTakeMut(st.buckets, fl.file_sizes) THEN [st EXCEPT !.status = "panic_slice"]
    ELSE [st EXCEPT !.bufs[f] = TakeMutTaken(st.buckets, fl.file_sizes)]

\* lines 182-191: one contributor paired with its buffers
ZipStep(st, f, fl) ==
    IF st.status # "ok" THEN st
    ELSE IF ~HasFileSizes(fl) THEN [st EXCEPT !.bufs[f] = EmptyPartMap]
    ELSE IF ~CanTakeMut(st.buckets, fl.file_sizes) THEN [st EXCEPT !.status = "panic_slice"]
    ELSE [st EXCEPT !.bufs[f] = TakeMutTaken(st.buckets, fl.file_sizes),
                    !.buckets = TakeMutRest(st.buckets, fl.file_sizes)]

RECURSIVE ZipLoop(_, _, _)
ZipLoop(st, f, fls) ==
    IF f \notin Files THEN st
    ELSE ZipLoop(ZipStep(st, f, fls[f]), f + 1, fls)

\* lines 179-192: files_and_buffers, [bufs, buckets, status]
FilesAndBuffers(buckets, l) ==
    ZipLoop([bufs |-> [f \in Files |-> EmptyPartMap], buckets |-> buckets, status |-> "ok"],
            1, l.file_layouts)

-----------------------------------------------------------------------------
(* What the writers do to the cells *)

\* the value contributor f writes into cell i of one of its buffers; later
\* contributors write smaller values, so the .eh_frame_hdr entries are
\* written out of order
ValueWritten(f, i) == 10 * (Cardinality(Files) + 1 - f) + i

\* FileLayout::write into one buffer
WriteBuffer(m, f, buf) ==
    [c \in DOMAIN m |-> IF c \in CellsOf(buf) THEN ValueWritten(f, c - buf.lo) ELSE m[c]]

RECURSIVE WriteBuffers(_, _, _, _)
WriteBuffers(m, f, bufs, order) ==
    IF order = <<>> THEN m
    ELSE WriteBuffers(WriteBuffer(m, f, bufs[Head(order)]), f, bufs, Tail(order))

\* size_of::<elf::EhFrameHdr>(), in cells
EhFrameHdrCells == 1

RECURSIVE InsertSorted(_, _)
InsertSorted(sorted, x) ==
    IF sorted = <<>> THEN <<x>>
    ELSE IF Head(sorted) <= x THEN <<Head(sorted)>> \o InsertSorted(Tail(sorted), x)
    ELSE <<x>> \o sorted

RECURSIVE SortEntries(_)
SortEntries(v) ==
    IF v = <<>> THEN <<>>
    ELSE InsertSorted(SortEntries(SubSeq(v, 1, Len(v) - 1)), v[Len(v)])

\* eh_frame_hdr[size_of::<EhFrameHdr>()..] panics on a shorter section
CanSortEhFrameHdr(buf) == EhFrameHdrCells <= buf.len

\* sort_eh_frame_hdr_entries: entries.sort_by_key(|e| e.frame_ptr)
sort_eh_frame_hdr_entries(m, buf) ==
    LET first == buf.lo + EhFrameHdrCells
        n == buf.len - EhFrameHdrCells
        sorted == SortEntries([k \in 1..n |-> m[first + k - 1]])
    IN [c \in DOMAIN m |->
            IF c >= first /\ c < first + n THEN sorted[c - first + 1] ELSE m[c]]

-----------------------------------------------------------------------------
(* Spec: Output::new, set_size, write *)

MaxSetSizeCalls == 2

NoFile == [exists |-> FALSE, len |-> 0, executable |-> FALSE]

\* an output of an earlier link, still at the path
OldFile == [exists |-> TRUE, len |-> 1, executable |-> TRUE]

\* A mutation of Output::new: the creator starts as set_size leaves it, the
\* sender taken in Background mode and a file size of zero in Regular mode.
Output_new_Sized(n) ==
    IF n > 1
    THEN [kind |-> "Background", sender |-> FALSE, file_size |-> <<>>]
    ELSE [kind |-> "Regular", sender |-> FALSE, file_size |-> <<0>>]

\* Output::new: Background with a channel when num_threads > 1, Regular otherwise
Output_new(n) ==
    IF n > 1
    THEN [kind |-> "Background", sender |-> TRUE, file_size |-> <<>>]
    ELSE [kind |-> "Regular", sender |-> FALSE, file_size |-> <<>>]

OutIdle ==
    /\ num_threads = 0
    /\ creator = Output_new(0)
    /\ spawned = <<>>
    /\ chan = <<>>
    /\ file = NoFile
    /\ mapped = FALSE
    /\ mmap = <<>>
    /\ pc = "idle"
    /\ result = "none"
    /\ layout = <<>>
    /\ section_buffers = <<>>
    /\ writable_buckets = <<>>
    /\ files_and_buffers = <<>>
    /\ wpc = <<>>
    /\ wpos = <<>>
    /\ written_by = <<>>
    /\ events = <<>>
    /\ calls = <<>>

OutInit ==
    /\ num_threads \in {1, 2}
    /\ creator = Output_new(num_threads)
    /\ spawned = <<>>
    /\ chan = <<>>
    /\ file \in {NoFile, OldFile}
    /\ mapped = FALSE
    /\ mmap = <<>>
    /\ pc = "ready"
    /\ result = "none"
    /\ layout \in Layouts
    /\ section_buffers = [id \in SectionIdSet |-> EmptySlice]
    /\ writable_buckets = EmptyPartMap
    /\ files_and_buffers = [f \in Files |-> EmptyPartMap]
    /\ wpc = [f \in Files |-> "pending"]
    /\ wpos = [f \in Files |-> 0]
    /\ written_by = <<>>
    /\ events = <<>>
    /\ calls = [set_size |-> 0, accepted |-> 0, sent |-> 0]

\* the sizes a caller passes: the layout's file size, or a larger one
SizeArgs == {FileSizeOf(layout), FileSizeOf(layout) + 1}

\* line 115: *file_size = Some(size)
SetSizeRegular(size) == [creator EXCEPT !.file_size = <<size>>]

\* Output::set_size
Output_set_size ==
    /\ pc = "ready"
    /\ calls.set_size < MaxSetSizeCalls
    /\ \E size \in SizeArgs :
        IF creator.kind = "Background"
        THEN IF creator.sender
             THEN \* sender.take(), rayon::spawn
                  /\ creator' = [creator EXCEPT !.sender = FALSE]
                  /\ spawned' = <<size>>
                  /\ calls' = [calls EXCEPT !.set_size = @ + 1, !.accepted = @ + 1]
                  /\ pc' = pc
             ELSE \* expect("set_size must only be called once")
                  /\ pc' = "panicked"
                  /\ calls' = [calls EXCEPT !.set_size = @ + 1]
                  /\ UNCHANGED <<creator, spawned>>
        ELSE /\ creator' = SetSizeRegular(size)
             /\ calls' = [calls EXCEPT !.set_size = @ + 1, !.accepted = @ + 1]
             /\ UNCHANGED <<spawned, pc>>
    /\ UNCHANGED <<splitVars, objVars, relocVars, num_threads, chan, file, mapped, mmap, result, layout, section_buffers,
                   writable_buckets, files_and_buffers, wpc, wpos, written_by, events>>

\* how SizedOutput::new can end
ProvisionOutcomes == {"ok", "open_failed", "set_len_failed", "mmap_failed"}

\* SizedOutput::new: remove_file, open(create), set_len, map_mut
SizedOutput_new_file(size, outcome) ==
    CASE outcome = "open_failed" -> NoFile
      [] outcome = "set_len_failed" -> [exists |-> TRUE, len |-> 0, executable |-> FALSE]
      [] OTHER -> [exists |-> TRUE, len |-> size, executable |-> FALSE]

\* the cells of a file that set_len has just extended
ZeroCells(size) == [c \in 0..(size - 1) |-> 0]

Provision(size, outcome) ==
    /\ file' = SizedOutput_new_file(size, outcome)
    /\ mapped' = (outcome = "ok")
    /\ mmap' = IF outcome = "ok" THEN ZeroCells(size) ELSE <<>>
    /\ written_by' = IF outcome = "ok" THEN [c \in 0..(size - 1) |-> {}] ELSE <<>>
    /\ events' = IF outcome = "ok" THEN Append(events, "mapped") ELSE events

\* A mutation of the spawned closure: the result is dropped, not sent.
SendResult_Dropped(outcome) == chan

\* line 112: sender.send(SizedOutput::new(path, size))
SendResult(outcome) == Append(chan, outcome)

\* the closure of lines 111-113, run by a worker of the pool
WorkerProvision ==
    /\ spawned # <<>>
    /\ \E outcome \in ProvisionOutcomes :
        /\ Provision(spawned[1], outcome)
        /\ chan' = SendResult(outcome)
    /\ spawned' = <<>>
    /\ calls' = [calls EXCEPT !.sent = @ + Len(chan') - Len(chan)]
    /\ UNCHANGED <<splitVars, objVars, relocVars, num_threads, creator, pc, result, layout, section_buffers,
                   writable_buckets, files_and_buffers, wpc, wpos>>

\* Output::write up to the SizedOutput: lines 121-133
Output_write ==
    /\ pc = "ready"
    /\ IF creator.kind = "Background"
       THEN IF creator.sender
            THEN \* assert!(sized_output_sender.is_none(), "set_size was never called")
                 /\ pc' = "panicked"
                 /\ UNCHANGED result
            ELSE /\ pc' = "recv"
                 /\ UNCHANGED result
       ELSE IF creator.file_size = <<>>
            THEN \* file_size.context("set_size was never called")?
                 /\ pc' = "done"
                 /\ result' = "err_set_size_never_called"
            ELSE /\ pc' = "create"
                 /\ UNCHANGED result
    /\ UNCHANGED <<splitVars, objVars, relocVars, num_threads, creator, spawned, chan, file, mapped, mmap, layout,
                   section_buffers, writable_buckets, files_and_buffers, wpc, wpos,
                   written_by, events, calls>>

\* wait_for_sized_output: sized_output_recv.recv()?
WaitForSizedOutput ==
    /\ pc = "recv"
    /\ chan # <<>>
    /\ chan' = Tail(chan)
    /\ IF Head(chan) = "ok"
       THEN pc' = "split_a" /\ UNCHANGED result
       ELSE pc' = "done" /\ result' = "err_provision"
    /\ UNCHANGED <<splitVars, objVars, relocVars, num_threads, creator, spawned, file, mapped, mmap, layout,
                   section_buffers, writable_buckets, files_and_buffers, wpc, wpos,
                   written_by, events, calls>>

\* create_file_non_lazily: SizedOutput::new(path, file_size)?
CreateFileNonLazily ==
    /\ pc = "create"
    /\ \E outcome \in ProvisionOutcomes :
        /\ Provision(creator.file_size[1], outcome)
        /\ IF outcome = "ok"
           THEN pc' = "split_a" /\ UNCHANGED result
           ELSE pc' = "done" /\ result' = "err_provision"
    /\ UNCHANGED <<splitVars, objVars, relocVars, num_threads, creator, spawned, chan, layout, section_buffers,
                   writable_buckets, files_and_buffers, wpc, wpos, calls>>

\* write_file_contents, line 176: Stage A
StageA ==
    /\ pc = "split_a"
    /\ LET r == split_output_into_sections(layout.section_layouts, file.len) IN
        IF r.status = "ok"
        THEN /\ section_buffers' = r.section_data
             /\ pc' = "split_b"
             /\ UNCHANGED mapped
        ELSE /\ pc' = "panicked"
             /\ mapped' = FALSE
             /\ UNCHANGED section_buffers
    /\ UNCHANGED <<splitVars, objVars, relocVars, num_threads, creator, spawned, chan, file, mmap, result, layout,
                   writable_buckets, files_and_buffers, wpc, wpos, written_by, events, calls>>

\* write_file_contents, lines 178-192: Stage B and the contributors' buffers
StageB ==
    /\ pc = "split_b"
    /\ LET b == split_buffers_by_alignment(section_buffers, layout)
           z == FilesAndBuffers(b.parts, layout)
       IN IF b.status = "ok" /\ z.status = "ok"
          THEN /\ section_buffers' = b.section_buffers
               /\ writable_buckets' = z.buckets
               /\ files_and_buffers' = z.bufs
               /\ pc' = "par"
               /\ UNCHANGED mapped
          ELSE /\ pc' = "panicked"
               /\ mapped' = FALSE
               /\ UNCHANGED <<section_buffers, writable_buckets, files_and_buffers>>
    /\ UNCHANGED <<splitVars, objVars, relocVars, num_threads, creator, spawned, chan, file, mmap, result, layout,
                   wpc, wpos, written_by, events, calls>>

-----------------------------------------------------------------------------
(* Spec: the parallel per-contributor writers (into_par_iter ... collect) *)

Finished == {"ok", "err", "panic", "skipped"}
Failed == {"err", "panic"}

\* a task of the parallel iterator starts: FileLayout::write(buffer, layout)
WriterStart(f) ==
    /\ pc = "par"
    /\ wpc[f] = "pending"
    /\ wpc' = [wpc EXCEPT ![f] = "running"]
    /\ events' = Append(events, "start")
    /\ UNCHANGED <<splitVars, objVars, relocVars, num_threads, creator, spawned, chan, file, mapped, mmap, pc, result,
                   layout, section_buffers, writable_buckets, files_and_buffers, wpos,
                   written_by, calls>>

\* the contributor fills the next of its buffers
WriterWrite(f) ==
    /\ pc = "par"
    /\ wpc[f] = "running"
    /\ layout.file_layouts[f].kind = "Object"
    /\ wpos[f] < Len(PartOrder)
    /\ LET buf == files_and_buffers[f][PartOrder[wpos[f] + 1]] IN
        /\ mmap' = WriteBuffer(mmap, f, buf)
        /\ written_by' = [c \in DOMAIN written_by |->
                            IF c \in CellsOf(buf) THEN written_by[c] \cup {f}
                            ELSE written_by[c]]
    /\ wpos' = [wpos EXCEPT ![f] = @ + 1]
    /\ UNCHANGED <<splitVars, objVars, relocVars, num_threads, creator, spawned, chan, file, mapped, pc, result, layout,
                   section_buffers, writable_buckets, files_and_buffers, wpc, events, calls>>

\* the contributor's write returns Ok: it has filled its buffers (a
\* FileLayout::Dynamic has none)
WriterFinish(f) ==
    /\ pc = "par"
    /\ wpc[f] = "running"
    /\ \/ layout.file_layouts[f].kind = "Dynamic"
       \/ wpos[f] = Len(PartOrder)
    /\ wpc' = [wpc EXCEPT ![f] = "ok"]
    /\ events' = Append(events, "finish")
    /\ UNCHANGED <<splitVars, objVars, relocVars, num_threads, creator, spawned, chan, file, mapped, mmap, pc, result,
                   layout, section_buffers, writable_buckets, files_and_buffers, wpos,
                   written_by, calls>>

\* the contributor's write returns an error or panics, wherever it has got to
WriterFail(f) ==
    /\ pc = "par"
    /\ wpc[f] = "running"
    /\ layout.file_layouts[f].kind = "Object"
    /\ \E how \in Failed : wpc' = [wpc EXCEPT ![f] = how]
    /\ events' = Append(events, "finish")
    /\ UNCHANGED <<splitVars, objVars, relocVars, num_threads, creator, spawned, chan, file, mapped, mmap, pc, result,
                   layout, section_buffers, writable_buckets, files_and_buffers, wpos,
                   written_by, calls>>

\* collect::<Result>() stops handing out items once one has failed: a
\* contributor that has not started may never run
WriterSkip(f) ==
    /\ pc = "par"
    /\ wpc[f] = "pending"
    /\ \E g \in Files : wpc[g] \in Failed
    /\ wpc' = [wpc EXCEPT ![f] = "skipped"]
    /\ UNCHANGED <<splitVars, objVars, relocVars, num_threads, creator, spawned, chan, file, mapped, mmap, pc, result,
                   layout, section_buffers, writable_buckets, files_and_buffers, wpos,
                   written_by, events, calls>>

\* A mutation of the join: collect returns as soon as one task has ended.
CollectReady_Any == \E f \in Files : wpc[f] \in Finished

\* collect::<Result>() returns when every task has ended
CollectReady == \A f \in Files : wpc[f] \in Finished

\* A mutation of line 199: the collected Result is dropped instead of `?`.
CollectResult_Ignored(w) ==
    IF \E f \in Files : w[f] = "panic" THEN "panic" ELSE "ok"

\* line 199: .collect::<Result>()?  (a panic of a task is resumed in the caller)
CollectResult(w) ==
    IF \E f \in Files : w[f] = "panic" THEN "panic"
    ELSE IF \E f \in Files : w[f] = "err" THEN "err"
    ELSE "ok"

\* the end of write_file_contents, and the `?` of line 164
Collect ==
    /\ pc = "par"
    /\ CollectReady
    /\ LET r == CollectResult(wpc) IN
        /\ pc' = CASE r = "panic" -> "panicked" [] r = "err" -> "done" [] OTHER -> "sort"
        /\ result' = IF r = "err" THEN "err_contributor" ELSE result
        /\ mapped' = (r = "ok")
    /\ UNCHANGED <<splitVars, objVars, relocVars, num_threads, creator, spawned, chan, file, mmap, layout,
                   section_buffers, writable_buckets, files_and_buffers, wpc, wpos,
                   written_by, events, calls>>

\* lines 167-168: a fresh split_output_into_sections, then sort_eh_frame_hdr_entries
SortEhFrameHdr ==
    /\ pc = "sort"
    /\ LET r == split_output_into_sections(layout.section_layouts, file.len) IN
        IF r.status = "ok" /\ CanSortEhFrameHdr(r.section_data["eh_frame_hdr"])
        THEN /\ section_buffers' = r.section_data
             /\ mmap' = sort_eh_frame_hdr_entries(mmap, r.section_data["eh_frame_hdr"])
             /\ events' = Append(events, "sort")
             /\ pc' = "chmod"
             /\ UNCHANGED mapped
        ELSE /\ pc' = "panicked"
             /\ mapped' = FALSE
             /\ UNCHANGED <<section_buffers, mmap, events>>
    /\ UNCHANGED <<splitVars, objVars, relocVars, num_threads, creator, spawned, chan, file, result, layout,
                   writable_buckets, files_and_buffers, wpc, wpos, written_by, calls>>

\* lines 169-171: crate::fs::make_executable(&self.file)?; Ok(())
MakeExecutable ==
    /\ pc = "chmod"
    /\ \E ok \in BOOLEAN :
        /\ file' = [file EXCEPT !.executable = IF ok THEN TRUE ELSE @]
        /\ result' = IF ok THEN "ok" ELSE "err_make_executable"
    /\ events' = Append(events, "chmod")
    /\ pc' = "done"
    /\ mapped' = FALSE
    /\ UNCHANGED <<splitVars, objVars, relocVars, num_threads, creator, spawned, chan, mmap, layout, section_buffers,
                   writable_buckets, files_and_buffers, wpc, wpos, written_by, calls>>

OutNext ==
    \/ Output_set_size
    \/ WorkerProvision
    \/ Output_write
    \/ WaitForSizedOutput
    \/ CreateFileNonLazily
    \/ StageA
    \/ StageB
    \/ \E f \in Files : WriterStart(f)
    \/ \E f \in Files : WriterWrite(f)
    \/ \E f \in Files : WriterFinish(f)
    \/ \E f \in Files : WriterFail(f)
    \/ \E f \in Files : WriterSkip(f)
    \/ Collect
    \/ SortEhFrameHdr
    \/ MakeExecutable

ObjIdle ==
    /\ o_pc = "idle"
    /\ o_i = 0
    /\ o_in = <<>>
    /\ o_buf = <<>>
    /\ o_w = <<>>
    /\ o_result = "none"
    /\ o_hist = <<>>

-----------------------------------------------------------------------------
(* ObjectLayout::write: the contributor's writers (SpecObj) *)

GOT_ENTRY_SIZE == 8
PLT_ENTRY_SIZE == 16

MaxGotSlots == 2
MaxPltEntries == 1
MaxRelaPlt == 1
MaxRelaDyn == 1
MaxSections == 1
MaxPltRelocations == 1
MaxLoadedSymbols == 1
MaxRelocations == 1
MaxSymtabEntries == 1
MaxStrings == 1
MaxNameLen == 0

\* SectionSlot: a Loaded section whose resolution_kind needs a GOT entry and
\* whose resolution has a got_address, another Loaded section, EhFrameData,
\* any other slot
SlotKinds == {"loaded_got", "loaded", "eh_frame", "other"}

\* layout.global_symbol_resolution(symbol_id): Resolved with a got_address,
\* Resolved without one, Dynamic, None
SymbolKinds == {"resolved_got", "resolved", "dynamic", "none"}

TargetResolutionKinds == {"Address", "GotTlsDouble", "GotTlsOffset", "IFunc"}

\* What process_resolution reads of a Resolution: whether got_address is Some,
\* whether plt_address is None, or Some and such that got_address -
\* (plt_address + 0xb) fits an i32 ("near") or does not ("far"), the kind, and
\* whether address lies in the TLS range.
Resolutions ==
    [got_address : BOOLEAN, plt_address : {"none", "near", "far"},
     kind : TargetResolutionKinds, in_tls : BOOLEAN]

\* a resolution with a got_address; one without, of which process_resolution
\* reads nothing else
GotResolutions == {x \in Resolutions : x.got_address}
NoGotResolution ==
    [got_address |-> FALSE, plt_address |-> "none", kind |-> "Address", in_tls |-> FALSE]

\* the sizes the got buffer can have: whole slots, and one that is not
GotByteSizes == {n * GOT_ENTRY_SIZE : n \in 0..MaxGotSlots} \cup {GOT_ENTRY_SIZE - 1}
PltByteSizes == {n * PLT_ENTRY_SIZE : n \in 0..MaxPltEntries}

NotTaken == 0 - 1

\* the number of resolutions with a got_address the contributor hands to
\* process_resolution if nothing stops it
GotRequiring(in) == in.got_sections + in.got_symbols

\* the SectionSlot kinds the section at o_i can have, so that got_sections of
\* the sections are "loaded_got"
SlotKindsLeft ==
    LET got_left == o_in.got_sections - o_hist.presented
        slots_left == o_in.sections - o_i + 1
    IN {k \in SlotKinds : IF k = "loaded_got" THEN got_left > 0 ELSE slots_left > got_left}

\* the resolutions the symbol at o_i can have, so that got_symbols of the
\* loaded symbols are "resolved_got"
SymbolKindsLeft ==
    LET got_left == o_in.got_symbols - (o_hist.presented - o_in.got_sections)
        symbols_left == o_in.loaded_symbols - o_i + 1
    IN {k \in SymbolKinds : IF k = "resolved_got" THEN got_left > 0
                                                  ELSE symbols_left > got_left}

ObjInit ==
    /\ o_pc = "new_plt_got"
    /\ o_i = 1
    /\ o_in \in [sections : 0..MaxSections, got_sections : 0..MaxSections,
                 plt_relocations : 0..MaxPltRelocations,
                 loaded_symbols : 0..MaxLoadedSymbols, got_symbols : 0..MaxLoadedSymbols,
                 is_relocatable : BOOLEAN,
                 strip_all : BOOLEAN]
    /\ o_in.got_sections <= o_in.sections
    /\ o_in.got_symbols <= o_in.loaded_symbols
    /\ o_buf = [got |-> NotTaken, plt |-> NotTaken, rela_plt |-> NotTaken,
                rela_dyn |-> NotTaken]
    /\ o_w = [got |-> 0, plt |-> 0, rela_plt |-> 0, rela_dyn |-> 0, is_active |-> FALSE,
              local_entries |-> 0, global_entries |-> 0, strings |-> 0]
    /\ o_result = "none"
    /\ o_hist = [presented |-> 0, applied |-> 0, defined |-> FALSE, absolute |-> 0,
                 got_relative |-> 0]

Ok(w) == [w |-> w, status |-> "ok"]
Stop(w, status) == [w |-> w, status |-> status]

\* bytemuck::cast_slice_mut from bytes to u64: panics unless the length is a
\* whole number of entries
CanCastSlice(bytes, entry_size) == bytes % entry_size = 0

\* A mutation of write_relocation: an active writer takes no slot.
write_relocation_NoSlot(w) == Ok(w)

\* RelocationWriter::write_relocation
write_relocation(w) ==
    IF ~w.is_active THEN Ok(w)
    ELSE IF w.rela_dyn = 0 THEN Stop(w, "err_rela_dyn")
    ELSE Ok([w EXCEPT !.rela_dyn = @ - 1])

\* n calls of write_relocation, up to the first that fails
RECURSIVE write_relocations(_, _)
write_relocations(w, n) ==
    IF n = 0 THEN Ok(w)
    ELSE LET r == write_relocation(w)
         IN IF r.status # "ok" THEN r ELSE write_relocations(r.w, n - 1)

\* the PLT half of process_resolution
process_plt(w, res) ==
    IF res.plt_address = "none" THEN Ok(w)
    ELSE IF w.plt = 0 THEN Stop(w, "err_plt")
    ELSE IF w.plt < PLT_ENTRY_SIZE THEN Stop(w, "panic")
    ELSE LET w1 == [w EXCEPT !.plt = @ - PLT_ENTRY_SIZE]
         IN IF res.plt_address = "near" THEN Ok(w1) ELSE Stop(w1, "err_plt_far")

\* PltGotWriter::process_resolution
process_resolution(w, res) ==
    IF ~res.got_address THEN Ok(w)
    ELSE IF w.got = 0 THEN Stop(w, "err_got")
    ELSE IF res.kind = "GotTlsDouble" THEN
        IF w.got < 2 THEN Stop([w EXCEPT !.got = 0], "panic")
        ELSE Ok([w EXCEPT !.got = @ - 2])
    ELSE IF res.kind = "GotTlsOffset" /\ ~res.in_tls THEN Stop(w, "err_tls")
    ELSE LET needs_relocation == w.is_active /\ res.kind \notin {"GotTlsOffset", "IFunc"}
             w1 == [w EXCEPT !.got = @ - 1]
             r == IF needs_relocation THEN write_relocation(w1) ELSE Ok(w1)
         IN IF r.status # "ok" THEN r ELSE process_plt(r.w, res)

\* A mutation of validate_empty: only the GOT residual is looked at.
PltGotWriter_validate_empty_GotOnly(w) ==
    IF w.got # 0 THEN "err_unused_plt_got" ELSE "ok"

\* PltGotWriter::validate_empty
PltGotWriter_validate_empty(w) ==
    IF w.got # 0 \/ w.plt # 0 THEN "err_unused_plt_got" ELSE "ok"

\* RelocationWriter::validate_empty
RelocationWriter_validate_empty(w) ==
    IF w.rela_dyn = 0 THEN "ok" ELSE "err_unused_rela_dyn"

\* PltGotWriter::apply_relocation
PltGotWriter_apply_relocation(w) ==
    IF w.rela_plt < 1 THEN Stop(w, "panic") ELSE Ok([w EXCEPT !.rela_plt = @ - 1])

\* SymbolTableWriter::define_symbol
define_symbol(w, is_local, name_len) ==
    LET entries == IF is_local THEN w.local_entries ELSE w.global_entries
        w1 == IF is_local THEN [w EXCEPT !.local_entries = @ - 1]
                          ELSE [w EXCEPT !.global_entries = @ - 1]
    IN IF entries < 1 THEN Stop(w, "panic")
       ELSE IF w1.strings < name_len + 1 THEN Stop(w1, "panic")
       ELSE Ok([w1 EXCEPT !.strings = @ - (name_len + 1)])

\* SymbolTableWriter::check_exhausted
check_exhausted(w) ==
    IF w.local_entries # 0 \/ w.global_entries # 0 \/ w.strings # 0
    THEN "err_symtab" ELSE "ok"

\* The position after the loops that have no item left: the for loops of
\* ObjectLayout::write in their order, then the strip_all test.
RECURSIVE LoopPosition(_, _)
LoopPosition(p, i) ==
    IF p = "sections" /\ i > o_in.sections THEN LoopPosition("plt_relocations", 1)
    ELSE IF p = "plt_relocations" /\ i > o_in.plt_relocations
        THEN LoopPosition("loaded_symbols", 1)
    ELSE IF p = "loaded_symbols" /\ i > o_in.loaded_symbols
        THEN (IF o_in.strip_all THEN <<"validate", 1>> ELSE <<"symtab_new", 1>>)
    ELSE <<p, i>>

\* What a step of ObjectLayout::write leaves: `?` returns the error, a panic
\* unwinds, otherwise control goes to position (p, i).
Proceed(r, p, i) ==
    /\ o_w' = r.w
    /\ IF r.status = "ok"
       THEN /\ o_pc' = LoopPosition(p, i)[1]
            /\ o_i' = LoopPosition(p, i)[2]
            /\ o_result' = o_result
       ELSE /\ o_pc' = IF r.status = "panic" THEN "panicked" ELSE "done"
            /\ o_i' = o_i
            /\ o_result' = IF r.status = "panic" THEN o_result ELSE r.status

\* whether process_resolution, given res, calls write_relocation on an active
\* writer: res has a got_address and its kind leaves needs_relocation set
WantsGotRelocation(w, res) ==
    w.is_active /\ res.got_address
      /\ res.kind \notin {"GotTlsDouble", "GotTlsOffset", "IFunc"}

\* PltGotWriter::new takes the got, plt and rela_plt buffers
PltGotWriter_new ==
    /\ o_pc = "new_plt_got"
    /\ \E got \in GotByteSizes, plt \in PltByteSizes, rela_plt \in 0..MaxRelaPlt :
        /\ o_buf' = [o_buf EXCEPT !.got = got, !.plt = plt, !.rela_plt = rela_plt]
        /\ IF CanCastSlice(got, GOT_ENTRY_SIZE)
           THEN Proceed(Ok([o_w EXCEPT !.got = got \div GOT_ENTRY_SIZE, !.plt = plt,
                                       !.rela_plt = rela_plt]),
                        "new_relocation", 1)
           ELSE Proceed(Stop(o_w, "panic"), "new_relocation", 1)
    /\ UNCHANGED <<splitVars, outVars, relocVars, o_in, o_hist>>

\* RelocationWriter::new takes the rela_dyn buffer
RelocationWriter_new ==
    /\ o_pc = "new_relocation"
    /\ \E rela_dyn \in 0..MaxRelaDyn :
        /\ o_buf' = [o_buf EXCEPT !.rela_dyn = rela_dyn]
        /\ Proceed(Ok([o_w EXCEPT !.rela_dyn = rela_dyn, !.is_active = o_in.is_relocatable]),
                   "sections", 1)
    /\ UNCHANGED <<splitVars, outVars, relocVars, o_in, o_hist>>

\* write_section up to its resolution: the section's bytes are copied if its
\* buffer has room for them, and apply_relocations calls write_relocation for
\* each of `absolute` relocations before it returns or fails.
write_section_data(w, has_room, absolute, applies) ==
    IF ~has_room THEN Stop(w, "err_section")
    ELSE LET r == write_relocations(w, IF w.is_active THEN absolute ELSE 0)
         IN IF r.status = "ok" /\ ~applies THEN Stop(r.w, "err_section") ELSE r

\* what a section gives write_section_data to do: no room for its bytes, or
\* room and some absolute relocations that apply or of which one fails
SectionWrites ==
    {[has_room |-> FALSE, absolute |-> 0, applies |-> TRUE]}
      \cup {[has_room |-> TRUE, absolute |-> a, applies |-> b] :
               a \in 0..MaxRelocations, b \in BOOLEAN}

\* a SectionSlot::Loaded of the sections loop: write_section
Section_Loaded ==
    /\ o_pc = "sections"
    /\ \E kind \in SlotKindsLeft \cap {"loaded", "loaded_got"}, sec \in SectionWrites :
       \E res \in IF kind = "loaded_got" THEN GotResolutions ELSE {NoGotResolution} :
        LET r1 == write_section_data(o_w, sec.has_room, sec.absolute, sec.applies)
            needs_got_entry == kind = "loaded_got"
            r2 == IF r1.status = "ok" /\ needs_got_entry
                  THEN process_resolution(r1.w, res) ELSE r1
            applied == IF sec.has_room /\ o_w.is_active THEN sec.absolute ELSE 0
            wanted == IF r1.status = "ok" /\ needs_got_entry /\ WantsGotRelocation(r1.w, res)
                      THEN 1 ELSE 0
        IN /\ Proceed(r2, "sections", o_i + 1)
           /\ o_hist' = [o_hist EXCEPT
                            !.presented = IF r1.status = "ok" /\ needs_got_entry
                                          THEN @ + 1 ELSE @,
                            !.absolute = @ + applied,
                            !.got_relative = @ + wanted]
    /\ UNCHANGED <<splitVars, outVars, relocVars, o_in, o_buf>>

\* a SectionSlot::EhFrameData of the sections loop: write_eh_frame_data, which
\* applies the relocations of the frames it keeps
Section_EhFrameData ==
    /\ o_pc = "sections"
    /\ "eh_frame" \in SlotKindsLeft
    /\ \E sec \in {x \in SectionWrites : x.has_room} :
        /\ Proceed(write_section_data(o_w, TRUE, sec.absolute, sec.applies),
                   "sections", o_i + 1)
        /\ o_hist' = [o_hist EXCEPT
                         !.absolute = @ + (IF o_w.is_active THEN sec.absolute ELSE 0)]
    /\ UNCHANGED <<splitVars, outVars, relocVars, o_in, o_buf>>

\* any other SectionSlot
Section_Other ==
    /\ o_pc = "sections"
    /\ "other" \in SlotKindsLeft
    /\ Proceed(Ok(o_w), "sections", o_i + 1)
    /\ UNCHANGED <<splitVars, outVars, relocVars, o_in, o_buf, o_hist>>

\* one PltRelocation of the plt_relocations loop
ApplyPltRelocation ==
    /\ o_pc = "plt_relocations"
    /\ Proceed(PltGotWriter_apply_relocation(o_w), "plt_relocations", o_i + 1)
    /\ o_hist' = [o_hist EXCEPT !.applied = @ + 1]
    /\ UNCHANGED <<splitVars, outVars, relocVars, o_in, o_buf>>

\* PltGotWriter::process_symbol for one id of the loaded_symbols loop
process_symbol ==
    /\ o_pc = "loaded_symbols"
    /\ \E kind \in SymbolKindsLeft :
       \E res \in IF kind = "resolved_got" THEN GotResolutions ELSE {NoGotResolution} :
        /\ res.got_address = (kind = "resolved_got")
        /\ LET resolved == kind \in {"resolved_got", "resolved"}
           IN /\ Proceed(IF resolved THEN process_resolution(o_w, res) ELSE Ok(o_w),
                         "loaded_symbols", o_i + 1)
              /\ o_hist' = [o_hist EXCEPT
                               !.presented = IF res.got_address THEN @ + 1 ELSE @,
                               !.got_relative =
                                   IF WantsGotRelocation(o_w, res) THEN @ + 1 ELSE @]
    /\ UNCHANGED <<splitVars, outVars, relocVars, o_in, o_buf>>

\* write_symbols begins: SymbolTableWriter::new takes mem_sizes.symtab_* bytes
\* of the three symtab buffers, which file_sizes() sized from mem_sizes
SymbolTableWriter_new ==
    /\ o_pc = "symtab_new"
    /\ \E locals \in 0..MaxSymtabEntries, globals \in 0..MaxSymtabEntries,
          strings \in 0..MaxStrings :
        Proceed(Ok([o_w EXCEPT !.local_entries = locals, !.global_entries = globals,
                               !.strings = strings]),
                "symbols", 1)
    /\ UNCHANGED <<splitVars, outVars, relocVars, o_in, o_buf, o_hist>>

\* write_symbols is left: its SymbolTableWriter is dropped
DropSymbolWriter(r) ==
    Stop([r.w EXCEPT !.local_entries = 0, !.global_entries = 0, !.strings = 0], r.status)

\* what copy_symbol does with one symbol it copies: it defines a local or a
\* global symbol with a name of some length, or it fails
CopyShapes ==
    {[is_local |-> l, name_len |-> n, fails |-> FALSE] : l \in BOOLEAN, n \in 0..MaxNameLen}
      \cup {[is_local |-> FALSE, name_len |-> 0, fails |-> TRUE]}

\* one symbol of self.object.symbols() that copy_symbol defines, or for which
\* it fails; a symbol it does not copy changes nothing
CopySymbol ==
    /\ o_pc = "symbols"
    /\ \E sym \in CopyShapes :
        LET r == IF sym.fails THEN Stop(o_w, "err_symbol")
                 ELSE define_symbol(o_w, sym.is_local, sym.name_len)
        IN /\ Proceed(IF r.status = "ok" THEN r ELSE DropSymbolWriter(r), "symbols", 1)
           /\ o_hist' = [o_hist EXCEPT !.defined = @ \/ ~sym.fails]
    /\ UNCHANGED <<splitVars, outVars, relocVars, o_in, o_buf>>

\* the symbols are through: check_exhausted ends write_symbols
CheckExhausted ==
    /\ o_pc = "symbols"
    /\ Proceed(DropSymbolWriter(Stop(o_w, check_exhausted(o_w))), "validate", 1)
    /\ UNCHANGED <<splitVars, outVars, relocVars, o_in, o_buf, o_hist>>

\* the two validate_empty calls that end ObjectLayout::write
ValidateEmpty ==
    /\ o_pc = "validate"
    /\ o_pc' = "done"
    /\ o_result' = IF PltGotWriter_validate_empty(o_w) # "ok"
                   THEN PltGotWriter_validate_empty(o_w)
                   ELSE RelocationWriter_validate_empty(o_w)
    /\ UNCHANGED <<splitVars, outVars, relocVars, o_i, o_in, o_buf, o_w, o_hist>>

ObjNext ==
    \/ PltGotWriter_new
    \/ RelocationWriter_new
    \/ Section_Loaded
    \/ Section_EhFrameData
    \/ Section_Other
    \/ ApplyPltRelocation
    \/ process_symbol
    \/ SymbolTableWriter_new
    \/ CopySymbol
    \/ CheckExhausted
    \/ ValidateEmpty

-----------------------------------------------------------------------------
(* 64-bit words: eight bytes, least significant first (u64::to_le_bytes) *)

Byte == 0..255

\* the u64 with the value n, for n below 2^31
U64Of(n) == [i \in 1..8 |-> IF i <= 4 THEN (n \div (256 ^ (i - 1))) % 256 ELSE 0]

Zero64 == U64Of(0)

\* Option::None of an Option<NonZeroU64>
None == <<>>

\* the sum of two little-endian byte strings of one length and a carry in,
\* the carry out dropped
RECURSIVE AddBytes(_, _, _)
AddBytes(a, b, c) ==
    IF a = <<>> THEN <<>>
    ELSE LET s == Head(a) + Head(b) + c
         IN <<s % 256>> \o AddBytes(Tail(a), Tail(b), s \div 256)

Complement(a) == [i \in DOMAIN a |-> 255 - a[i]]

\* u64::wrapping_add, u64::wrapping_sub
wrapping_add(a, b) == AddBytes(a, b, 0)
wrapping_sub(a, b) == AddBytes(a, Complement(b), 1)

\* a < b as unsigned numbers: compared from the most significant byte down
RECURSIVE LessThan(_, _)
LessThan(a, b) ==
    IF a = <<>> THEN FALSE
    ELSE LET n == Len(a)
         IN IF a[n] # b[n] THEN a[n] < b[n]
            ELSE LessThan(SubSeq(a, 1, n - 1), SubSeq(b, 1, n - 1))

\* Range<u64>::contains
RangeContains(r, x) == ~LessThan(x, r.start) /\ LessThan(x, r.end)

\* i32::try_from(d as i64) succeeds: the upper 33 bits of d are all equal
FitsI32(d) ==
    \/ d[4] < 128 /\ \A i \in 5..8 : d[i] = 0
    \/ d[4] >= 128 /\ \A i \in 5..8 : d[i] = 255

\* value.to_le_bytes()[..n]
to_le_bytes(v, n) == SubSeq(v, 1, n)

\* buf[at .. at + bytes.len()].copy_from_slice(bytes), `at` counted from 0
Overwrite(buf, at, bytes) ==
    [i \in DOMAIN buf |-> IF at < i /\ i <= at + Len(bytes) THEN bytes[i - at] ELSE buf[i]]

ZeroBytes(n) == [i \in 1..n |-> 0]

-----------------------------------------------------------------------------
(* PltGotWriter::process_resolution on the contents of the buffers (SpecGot) *)

CURRENT_EXE_TLS_MOD == 1
R_X86_64_RELATIVE == 8

\* endbr64; bnd jmp *0x0(%rip); nopl 0x0(%rax,%rax,1)
PLT_ENTRY_TEMPLATE ==
    <<243, 15, 30, 250, 242, 255, 37, 0, 0, 0, 0, 15, 31, 68, 0, 0>>

\* layout.tls_start_address() .. layout.tls_end_address()
TlsStart == U64Of(12288)
TlsEnd == U64Of(12352)
TlsRange == [start |-> TlsStart, end |-> TlsEnd]

\* res.address: null, the first address of the TLS segment, the first after it
ResAddresses == {Zero64, TlsStart, TlsEnd}

\* res.plt_address: 0x1000 and 2^32 (the addresses of an image lie far below
\* 2^64 - 0xb, so plt_address + 0xb does not overflow)
PltAddresses == {U64Of(4096), <<0, 0, 0, 0, 1, 0, 0, 0>>}

\* res.got_address: 0x2000, and addresses that lie 2^31 - 1, 2^31, -2^31 and
\* -2^31 - 1 from 0x100b or from 2^32 + 0xb
GotAddresses ==
    {U64Of(8192), <<10, 16, 0, 128, 0, 0, 0, 0>>, <<11, 16, 0, 128, 0, 0, 0, 0>>,
     <<11, 0, 0, 128, 0, 0, 0, 0>>, <<10, 0, 0, 128, 0, 0, 0, 0>>}

GotCallResolutions ==
    [address : ResAddresses, got_address : {None} \cup GotAddresses,
     plt_address : {None} \cup PltAddresses, kind : TargetResolutionKinds]

ZeroRela == [address |-> Zero64, addend |-> Zero64, info |-> 0]

\* the writers over buffers of a file that was just created: all zero
NewWriters(got_slots, plt_bytes, rela_entries, is_active) ==
    [got |-> [i \in 1..got_slots |-> Zero64], got_pos |-> 0,
     plt |-> ZeroBytes(plt_bytes), plt_pos |-> 0,
     rela_dyn |-> [i \in 1..rela_entries |-> ZeroRela], rela_pos |-> 0,
     is_active |-> is_active]

GotCallWriters ==
    {NewWriters(g, p, r, a) :
        g \in 0..MaxGotSlots, p \in PltByteSizes, r \in 0..MaxRelaDyn, a \in BOOLEAN}

\* RelocationWriter::write_relocation
RelocationWriter_write_relocation(w, place, address) ==
    IF ~w.is_active THEN Ok(w)
    ELSE IF w.rela_pos = Len(w.rela_dyn) THEN Stop(w, "err_rela_dyn")
    ELSE Ok([w EXCEPT !.rela_dyn[w.rela_pos + 1] =
                          [address |-> place, addend |-> address,
                           info |-> R_X86_64_RELATIVE],
                      !.rela_pos = @ + 1])

\* A mutation of the PLT entry: the offset is taken from the start of the
\* entry, not from the end of its jmp instruction.
PltOffsetBase_EntryStart == U64Of(0)

\* the end of the jmp instruction within the entry
PltOffsetBase == U64Of(11)

\* A mutation of the PLT half: the entry is written where the PLT stands,
\* and the PLT is not advanced past it.
PltGotWriter_plt_entry_NotTaken(w, res) ==
    IF res.plt_address = None THEN Ok(w)
    ELSE IF w.plt_pos = Len(w.plt) THEN Stop(w, "err_plt")
    ELSE IF Len(w.plt) - w.plt_pos < PLT_ENTRY_SIZE THEN Stop(w, "panic")
    ELSE LET w1 == [w EXCEPT !.plt = Overwrite(@, w.plt_pos, PLT_ENTRY_TEMPLATE)]
             d == wrapping_sub(res.got_address,
                               wrapping_add(res.plt_address, PltOffsetBase))
         IN IF ~FitsI32(d) THEN Stop(w1, "err_plt_far")
            ELSE Ok([w1 EXCEPT !.plt = Overwrite(@, w.plt_pos + 7, to_le_bytes(d, 4))])

\* the PLT half of process_resolution
PltGotWriter_plt_entry(w, res) ==
    IF res.plt_address = None THEN Ok(w)
    ELSE IF w.plt_pos = Len(w.plt) THEN Stop(w, "err_plt")
    ELSE IF Len(w.plt) - w.plt_pos < PLT_ENTRY_SIZE THEN Stop(w, "panic")
    ELSE LET w1 == [w EXCEPT !.plt = Overwrite(@, w.plt_pos, PLT_ENTRY_TEMPLATE),
                             !.plt_pos = @ + PLT_ENTRY_SIZE]
             d == wrapping_sub(res.got_address,
                               wrapping_add(res.plt_address, PltOffsetBase))
         IN IF ~FitsI32(d) THEN Stop(w1, "err_plt_far")
            ELSE Ok([w1 EXCEPT !.plt = Overwrite(@, w.plt_pos + 7, to_le_bytes(d, 4))])

\* A mutation of needs_relocation: GotTlsOffset does not clear it.
NeedsRelocation_TlsOffsetKept(w, res) == w.is_active /\ res.kind # "IFunc"

\* needs_relocation once the kind is matched
NeedsRelocation(w, res) == w.is_active /\ res.kind \notin {"GotTlsOffset", "IFunc"}

\* A mutation of the value of a GOT slot: an IFunc slot holds res.address.
GotValue_IFuncAddress(res, tls) ==
    IF res.kind = "GotTlsOffset" THEN wrapping_sub(res.address, tls.end)
    ELSE res.address

\* the value the match on res.kind yields for a one-slot entry
GotValue(res, tls) ==
    IF res.kind = "GotTlsOffset" THEN wrapping_sub(res.address, tls.end)
    ELSE IF res.kind = "IFunc" THEN Zero64
    ELSE res.address

\* PltGotWriter::process_resolution
PltGotWriter_process_resolution(w, res, tls) ==
    LET left == Len(w.got) - w.got_pos
        slot == w.got_pos + 1
    IN IF res.got_address = None THEN Ok(w)
       ELSE IF left = 0 THEN Stop(w, "err_got")
       ELSE IF res.kind = "GotTlsDouble" THEN
            LET w1 == [w EXCEPT !.got[slot] = U64Of(CURRENT_EXE_TLS_MOD),
                                !.got_pos = @ + 1]
            IN IF left < 2 THEN Stop(w1, "panic")
               ELSE Ok([w1 EXCEPT !.got[slot + 1] = wrapping_sub(res.address, tls.end),
                                  !.got_pos = @ + 1])
       ELSE IF res.kind = "GotTlsOffset" /\ ~RangeContains(tls, res.address)
            THEN Stop(w, "err_tls")
       ELSE LET address == GotValue(res, tls)
                w1 == [w EXCEPT !.got_pos = @ + 1]
                r == IF NeedsRelocation(w, res)
                     THEN RelocationWriter_write_relocation(w1, res.got_address, address)
                     ELSE Ok([w1 EXCEPT !.got[slot] = address])
            IN IF r.status # "ok" THEN r
               ELSE PltGotWriter_plt_entry(r.w, res)

GotIdle ==
    /\ g_pc = "idle"
    /\ g_in = <<>>
    /\ g_w = <<>>
    /\ g_result = "none"

GotInit ==
    /\ g_pc = "call"
    /\ g_in \in [res : GotCallResolutions, tls : {TlsRange}, w : GotCallWriters]
    /\ g_w = g_in.w
    /\ g_result = "none"

\* one call of process_resolution: it returns Ok or an error, or it panics
ProcessResolution ==
    /\ g_pc = "call"
    /\ LET r == PltGotWriter_process_resolution(g_w, g_in.res, g_in.tls)
       IN /\ g_w' = r.w
          /\ g_pc' = IF r.status = "panic" THEN "panicked" ELSE "returned"
          /\ g_result' = IF r.status = "panic" THEN "none" ELSE r.status
    /\ UNCHANGED <<splitVars, outVars, objVars, lateVars, relVars, ehVars, g_in>>

GotNext == ProcessResolution

-----------------------------------------------------------------------------
(* apply_relocation and ObjectLayout::apply_relocations (SpecRel) *)

MaxSectionRelocations == 3

\* An r_type as RelocationKindInfo::from_raw reads it: the kind and the byte
\* size. "Unknown" is an r_type from_raw rejects; "Other" is a kind
\* apply_relocation does not handle.
RelocationTypes ==
    {[kind |-> "Absolute", byte_size |-> 8]}
      \cup {[kind |-> k, byte_size |-> 4] :
               k \in {"Absolute", "Relative", "GotRelative", "PltRelative", "TlsGd",
                      "TlsLd", "DtpOff", "GotTpOff", "TpOff", "Other"}}
      \cup {[kind |-> "Unknown", byte_size |-> 0]}

\* data16 lea 0x0(%rip),%rdi, up to its displacement: the start of a general
\* dynamic TLS access; what it becomes: mov %fs:0x0,%rax; lea 0x0(%rax),%rax
GdPrefix == <<102, 72, 141, 61>>
GdRewrite == <<100, 72, 139, 4, 37, 0, 0, 0, 0, 72, 141, 128>>

\* lea 0x0(%rip),%rdi, up to its displacement: the start of a local dynamic
\* TLS access; what it becomes: mov %fs:0x0,%rax with three prefixes
LdPrefix == <<72, 141, 61>>
LdRewrite == <<102, 102, 102, 100, 72, 139, 4, 37>>

\* A Relaxation, by what new_relocation_kind returns: a GOT load that becomes
\* a lea (PC-relative) when the value is relocatable and a mov of an
\* immediate (absolute) when it is not.
GotLoadRelaxation ==
    [relocatable |-> [kind |-> "Relative", byte_size |-> 4],
     fixed |-> [kind |-> "Absolute", byte_size |-> 4]]

\* Relaxation::new(r_type, out, offset): the analyzer reads the instruction
\* bytes before the offset and finds the relaxation the relocation allows
Relaxation_new(rel, out, offset) ==
    IF rel.relaxation # None /\ 2 <= offset /\ offset <= Len(out)
    THEN rel.relaxation ELSE None

\* relaxation.apply(out, offset, value_is_relocatable): the opcode before the
\* offset becomes that of lea or that of mov
Relaxation_apply(out, offset, value_is_relocatable) ==
    Overwrite(out, offset - 2, <<IF value_is_relocatable THEN 141 ELSE 199>>)

\* expect_bytes_before_offset; the slice of line 1243 panics when the offset
\* is beyond the bytes
expect_bytes_before_offset(bytes, offset, expected) ==
    IF offset < Len(expected) THEN "err_prefix"
    ELSE IF offset > Len(bytes) THEN "panic"
    ELSE IF SubSeq(bytes, offset - Len(expected) + 1, offset) # expected THEN "err_prefix"
    ELSE "ok"

\* what the match on rel_info.kind leaves: the value, or the error or panic
\* that ended it, and out, the relocation writer, offset and next_modifier
Computed(status, value, out, rw, offset, modifier) ==
    [status |-> status, value |-> value, out |-> out, rw |-> rw, offset |-> offset,
     modifier |-> modifier]

\* A mutation of the Absolute arm: a null target gets a record too.
AbsoluteIsDynamic_NullToo(rw, address) == rw.is_active

\* the test of the Absolute arm
AbsoluteIsDynamic(rw, address) == rw.is_active /\ address # Zero64

\* A mutation of the PC-relative value: the place is not subtracted.
PcRelative_NoPlace(base, addend, place) == wrapping_add(base, addend)

\* base.wrapping_add(addend).wrapping_sub(place)
PcRelative(base, addend, place) == wrapping_sub(wrapping_add(base, addend), place)

\* the TLS rewrite of a TlsGd or TlsLd relocation in LocalExec mode: the
\* prefix is verified, the instruction bytes are replaced (the slice of lines
\* 1178 and 1198 panics when it reaches beyond out), the offset advances
TlsRewrite(out, rw, offset, prefix, rewrite, value) ==
    LET e == expect_bytes_before_offset(out, offset, prefix)
        advance == Len(rewrite) - Len(prefix)
    IN IF e # "ok" THEN Computed(e, Zero64, out, rw, offset, "Normal")
       ELSE IF offset + advance > Len(out)
            THEN Computed("panic", Zero64, out, rw, offset, "Normal")
       ELSE Computed("ok", value, Overwrite(out, offset - Len(prefix), rewrite), rw,
                     offset + advance, "SkipNextRelocation")

\* the match on rel_info.kind
RelocationValue(kind, resolution, addend, place, offset, args, out, rw) ==
    LET address == resolution.address
        Value(v) == Computed("ok", v, out, rw, offset, "Normal")
        Error(e) == Computed(e, Zero64, out, rw, offset, "Normal")
        GotBased == IF resolution.got_address = None THEN Error("err_no_got")
                    ELSE Value(PcRelative(resolution.got_address, addend, place))
    IN CASE kind = "Absolute" ->
              IF AbsoluteIsDynamic(rw, address)
              THEN LET r == RelocationWriter_write_relocation(rw, place, address)
                   IN IF r.status # "ok" THEN Error(r.status)
                      ELSE Computed("ok", Zero64, out, r.w, offset, "Normal")
              ELSE Value(wrapping_add(address, addend))
         [] kind = "Relative" -> Value(PcRelative(address, addend, place))
         [] kind \in {"GotRelative", "GotTpOff"} -> GotBased
         [] kind = "PltRelative" ->
              IF args.link_static THEN Value(PcRelative(address, addend, place))
              ELSE IF resolution.plt_address = None THEN Error("err_no_plt")
              ELSE Value(PcRelative(resolution.plt_address, addend, place))
         [] kind = "TlsGd" ->
              IF args.tls_mode = "LocalExec"
              THEN TlsRewrite(out, rw, offset, GdPrefix, GdRewrite,
                              wrapping_sub(address, args.tls_end))
              ELSE GotBased
         [] kind = "TlsLd" ->
              IF args.tls_mode = "LocalExec"
              THEN TlsRewrite(out, rw, offset, LdPrefix, LdRewrite, Zero64)
              ELSE IF args.tlsld_got_entry = None THEN Error("panic")
              ELSE Value(PcRelative(args.tlsld_got_entry, addend, place))
         [] kind = "DtpOff" ->
              IF args.link_static
              THEN Value(wrapping_add(wrapping_sub(address, args.tls_end), addend))
              ELSE Error("panic")
         [] kind = "TpOff" -> Value(wrapping_sub(address, args.tls_end))
         [] OTHER -> Error("err_kind")

\* what apply_relocation leaves: the Result (or "panic"), the modifier it
\* returns, and out and the relocation writer as they are then
Applied(status, modifier, out, rw) ==
    [status |-> status, modifier |-> modifier, out |-> out, rw |-> rw]

\* apply_relocation
apply_relocation(resolution, offset_in_section, rel, section_address, args, out, rw) ==
    LET place == wrapping_add(section_address, U64Of(offset_in_section))
        relaxation == Relaxation_new(rel, out, offset_in_section)
        value_is_relocatable == resolution.address # Zero64 /\ args.is_relocatable
        r_type == IF relaxation = None THEN rel.r_type
                  ELSE IF value_is_relocatable THEN relaxation.relocatable
                  ELSE relaxation.fixed
        out1 == IF relaxation = None THEN out
                ELSE Relaxation_apply(out, offset_in_section, value_is_relocatable)
        addend == IF relaxation # None /\ ~value_is_relocatable THEN Zero64 ELSE rel.addend
    IN IF r_type.kind = "Unknown" THEN Applied("err_kind", "Normal", out1, rw)
       ELSE LET c == RelocationValue(r_type.kind, resolution, addend, place,
                                     offset_in_section, args, out1, rw)
                end == c.offset + r_type.byte_size
            IN IF c.status # "ok" THEN Applied(c.status, "Normal", c.out, c.rw)
               ELSE IF Len(c.out) < end THEN Applied("err_bounds", "Normal", c.out, c.rw)
               ELSE Applied("ok", c.modifier,
                            Overwrite(c.out, c.offset, to_le_bytes(c.value, r_type.byte_size)),
                            c.rw)

\* ---- the inputs

\* what apply_relocation reads of a Resolution
RelResolutions ==
    [address : {Zero64, TlsStart}, got_address : {None, U64Of(8192)},
     plt_address : {None, U64Of(4096)}]

NoResolution == [address |-> Zero64, got_address |-> None, plt_address |-> None]

\* what get_resolution returns for the target of a relocation: Ok(Some(res)),
\* Ok(None) for __tls_get_addr, or an error
Targets ==
    {[found |-> "some", res |-> r] : r \in RelResolutions}
      \cup {[found |-> f, res |-> NoResolution] : f \in {"none", "error"}}

MinusFour == wrapping_sub(Zero64, U64Of(4))

SectionAddress == U64Of(20480)

\* one relocation of any type at the start of the section or after where a
\* TLS prefix would be
WideRelocations ==
    {[offset |-> o, r_type |-> t, addend |-> a, relaxation |-> None, target |-> g] :
        o \in {0, 3, 4, 5}, t \in RelocationTypes, a \in {Zero64, MinusFour}, g \in Targets}
      \cup {[offset |-> o, r_type |-> [kind |-> "GotRelative", byte_size |-> 4],
             addend |-> MinusFour, relaxation |-> GotLoadRelaxation, target |-> g] :
               o \in {0, 4}, g \in Targets}

\* section bytes that begin with the prefix of a TLS access, and zero bytes
WideSections ==
    {GdPrefix \o ZeroBytes(n) : n \in {0, 4, 10, 12}}
      \cup {LdPrefix \o ZeroBytes(n) : n \in {2, 6, 9}}
      \cup {ZeroBytes(n) : n \in {0, 8, 12}}

\* the relocations of a section with a general dynamic TLS access: the TlsGd
\* relocation, the call of __tls_get_addr that follows it, a PC-relative
\* reference, and a reference to an undefined symbol
TlsGdRelocation ==
    [offset |-> 4, r_type |-> [kind |-> "TlsGd", byte_size |-> 4], addend |-> MinusFour,
     relaxation |-> None,
     target |-> [found |-> "some",
                 res |-> [address |-> TlsStart, got_address |-> U64Of(8192),
                          plt_address |-> None]]]
TlsGetAddrRelocation ==
    [offset |-> 12, r_type |-> [kind |-> "PltRelative", byte_size |-> 4],
     addend |-> MinusFour, relaxation |-> None,
     target |-> [found |-> "none", res |-> NoResolution]]
RelativeRelocation ==
    [offset |-> 18, r_type |-> [kind |-> "Relative", byte_size |-> 4], addend |-> MinusFour,
     relaxation |-> None,
     target |-> [found |-> "some",
                 res |-> [address |-> U64Of(24576), got_address |-> None,
                          plt_address |-> None]]]
UndefinedRelocation ==
    [offset |-> 12, r_type |-> [kind |-> "PltRelative", byte_size |-> 4],
     addend |-> MinusFour, relaxation |-> None,
     target |-> [found |-> "error", res |-> NoResolution]]

LoopRelocations ==
    {TlsGdRelocation, TlsGetAddrRelocation, RelativeRelocation, UndefinedRelocation}

LoopSection == GdPrefix \o ZeroBytes(20)

RECURSIVE SeqsUpTo(_, _)
SeqsUpTo(S, n) ==
    IF n = 0 THEN {<<>>}
    ELSE LET shorter == SeqsUpTo(S, n - 1)
         IN shorter \cup {Append(s, x) : s \in shorter, x \in S}

\* layout.args(), the TLS segment end and the TLSLD GOT entry of the layout
RelArgs ==
    [is_relocatable : BOOLEAN, link_static : BOOLEAN, tls_mode : {"LocalExec", "Preserve"},
     tls_end : {TlsEnd}, tlsld_got_entry : {None, U64Of(8200)}]

\* the arguments a relocation of this kind reads; the others are held fixed
ArgsMatter(args, kind) ==
    /\ args.link_static \/ kind \in {"PltRelative", "DtpOff"}
    /\ args.tls_mode = "LocalExec" \/ kind \in {"TlsGd", "TlsLd"}
    /\ args.tlsld_got_entry # None \/ (kind = "TlsLd" /\ args.tls_mode = "Preserve")

\* RelocationWriter::new over a new file's .rela.dyn
NewRelocationWriter(rela_entries, is_active) ==
    [rela_dyn |-> [i \in 1..rela_entries |-> ZeroRela], rela_pos |-> 0,
     is_active |-> is_active]

RelIdle ==
    /\ r_pc = "idle"
    /\ r_in = <<>>
    /\ r_i = 0
    /\ r_modifier = "Normal"
    /\ r_out = <<>>
    /\ r_rw = <<>>
    /\ r_result = "none"
    /\ r_log = <<>>

\* apply_relocations is entered with the section's bytes copied to out: for
\* a section with one relocation of any shape, or for the section with the
\* TLS access and up to MaxSectionRelocations relocations
RelInit ==
    /\ r_pc = "loop"
    /\ \E args \in RelArgs, n \in 0..MaxRelaDyn :
        \/ \E rel \in WideRelocations, out \in WideSections :
            /\ ArgsMatter(args, rel.r_type.kind)
            /\ r_in = [args |-> args, section_address |-> SectionAddress,
                       relocations |-> <<rel>>, out |-> out,
                       rw |-> NewRelocationWriter(n, args.is_relocatable)]
        \/ \E rels \in SeqsUpTo(LoopRelocations, MaxSectionRelocations) :
            /\ ArgsMatter(args, "TlsGd")
            /\ r_in = [args |-> args, section_address |-> SectionAddress,
                       relocations |-> rels, out |-> LoopSection,
                       rw |-> NewRelocationWriter(n, args.is_relocatable)]
    /\ r_i = 1
    /\ r_modifier = "Normal"
    /\ r_out = r_in.out
    /\ r_rw = r_in.rw
    /\ r_result = "none"
    /\ r_log = <<>>

\* what the loop did with one relocation
Logged(what, a) ==
    [what |-> what, status |-> a.status, modifier |-> a.modifier,
     out_before |-> r_out, rw_before |-> r_rw, out |-> a.out, rw |-> a.rw]

\* A mutation of the skip: the modifier is not reset.
AfterSkip_Kept == "SkipNextRelocation"

\* the modifier once a relocation was skipped
AfterSkip == "Normal"

\* the loop body when the modifier says to skip: the relocation is passed over
SkipRelocation ==
    /\ r_pc = "loop"
    /\ r_i <= Len(r_in.relocations)
    /\ r_modifier = "SkipNextRelocation"
    /\ r_modifier' = AfterSkip
    /\ r_i' = r_i + 1
    /\ r_log' = Append(r_log, Logged("skipped", Applied("ok", "Normal", r_out, r_rw)))
    /\ UNCHANGED <<splitVars, outVars, objVars, lateVars, gotVars, ehVars, r_pc, r_in, r_out, r_rw, r_result>>

\* the loop body otherwise: get_resolution, and apply_relocation if it
\* found a resolution
ResolveAndApply ==
    /\ r_pc = "loop"
    /\ r_i <= Len(r_in.relocations)
    /\ r_modifier # "SkipNextRelocation"
    /\ LET rel == r_in.relocations[r_i]
           a == CASE rel.target.found = "none" -> Applied("ok", r_modifier, r_out, r_rw)
                  [] rel.target.found = "error" ->
                       Applied("err_resolution", r_modifier, r_out, r_rw)
                  [] OTHER ->
                       apply_relocation(rel.target.res, rel.offset, rel,
                                        r_in.section_address, r_in.args, r_out, r_rw)
           what == CASE rel.target.found = "none" -> "unresolved"
                     [] rel.target.found = "error" -> "failed"
                     [] OTHER -> "applied"
       IN /\ r_log' = Append(r_log, Logged(what, a))
          /\ r_out' = a.out
          /\ r_rw' = a.rw
          /\ IF a.status = "ok"
             THEN /\ r_modifier' = a.modifier
                  /\ r_i' = r_i + 1
                  /\ UNCHANGED <<r_pc, r_result>>
             ELSE /\ r_pc' = IF a.status = "panic" THEN "panicked" ELSE "done"
                  /\ r_result' = IF a.status = "panic" THEN r_result ELSE a.status
                  /\ UNCHANGED <<r_modifier, r_i>>
    /\ UNCHANGED <<splitVars, outVars, objVars, lateVars, gotVars, ehVars, r_in>>

\* the relocations are through: apply_relocations returns Ok
ApplyRelocationsReturn ==
    /\ r_pc = "loop"
    /\ r_i > Len(r_in.relocations)
    /\ r_pc' = "done"
    /\ r_result' = "ok"
    /\ UNCHANGED <<splitVars, outVars, objVars, lateVars, gotVars, ehVars, r_in, r_i, r_modifier, r_out, r_rw,
                   r_log>>

RelNext == SkipRelocation \/ ResolveAndApply \/ ApplyRelocationsReturn

-----------------------------------------------------------------------------
(* ObjectLayout::write_eh_frame_data, one record per step (SpecEh) *)

PREFIX_LEN == 8
FDE_PC_BEGIN_OFFSET == 8

MaxFrames == 3
MaxHdrEntries == 2

\* EhFrameEntryPrefix: a record of 4 + length bytes; cie_id is 0 for a CIE and
\* for an FDE the distance from its CIE pointer back to its CIE
EhPrefixes == [length : {12}, cie_id : {0, 20, 36}]

EhSize(prefix) == 4 + prefix.length

\* the offsets at which the section can have relocations: in the first
\* record past its PC-begin slot, at the PC-begin slot of the second, past
\* it, and at the PC-begin slot of the third
EhRelocationOffsets == <<12, 24, 28, 40>>

\* What write_eh_frame_data and get_resolution read of a relocation's target
\* (RelocationTarget::Section, but for the third): a section with a
\* resolution; a section without one; a symbol that no section of the file
\* defines; a section whose address is more than 2^31 from .eh_frame_hdr; a
\* section with a resolution for which apply_relocation fails.
\* frame_info_ptr is taken to fit 32 bits: .eh_frame lies in the image.
EhTargets == {"resolved", "unresolved", "undefined", "far", "unappliable"}

\* the targets a relocation at this offset can have
EhTargetsAt(offset) ==
    IF offset \in {24, 40} THEN EhTargets ELSE {"resolved", "unappliable"}

\* the relocation lists over the offsets from the k-th on, in ascending order
RECURSIVE EhRelocationLists(_)
EhRelocationLists(k) ==
    IF k > Len(EhRelocationOffsets) THEN {<<>>}
    ELSE LET rest == EhRelocationLists(k + 1)
             o == EhRelocationOffsets[k]
         IN rest \cup {<<[offset |-> o, target |-> t]>> \o r : t \in EhTargetsAt(o), r \in rest}

RECURSIVE EhDataLen(_)
EhDataLen(prefixes) ==
    IF prefixes = <<>> THEN 0 ELSE EhSize(Head(prefixes)) + EhDataLen(Tail(prefixes))

EhIdle ==
    /\ e_pc = "idle"
    /\ e_in = <<>>
    /\ e_st = <<>>
    /\ e_result = "none"
    /\ e_log = <<>>

\* the .eh_frame section of the object: its records, with or without the
\* 4-byte terminator after them, its relocations, and the sizes of the
\* .eh_frame_hdr and .eh_frame buffers of the object
EhInit ==
    /\ e_pc = "loop"
    /\ \E prefixes \in SeqsUpTo(EhPrefixes, MaxFrames), rels \in EhRelocationLists(1),
          trailing \in {0, 4}, headers \in 0..MaxHdrEntries, short \in {0, 16} :
        /\ EhDataLen(prefixes) + trailing >= short
        /\ e_in = [prefixes |-> prefixes, data_len |-> EhDataLen(prefixes) + trailing,
                   relocations |-> rels, headers_len |-> headers,
                   output_len |-> EhDataLen(prefixes) + trailing - short]
    /\ e_st = [record |-> 1, input_pos |-> 0, output_pos |-> 0, header_offset |-> 0,
               next_rel |-> 1, cies |-> {}]
    /\ e_result = "none"
    /\ e_log = <<>>

\* relocations.peek(): the index of the pending relocation, 0 if none is left
EhPeek(st) == IF st.next_rel <= Len(e_in.relocations) THEN st.next_rel ELSE 0

\* the relocations from index `from` on whose offset is below `limit`: the
\* ones the two while loops take from the iterator
RECURSIVE EhTaken(_, _)
EhTaken(from, limit) ==
    IF from > Len(e_in.relocations) \/ e_in.relocations[from].offset >= limit THEN {}
    ELSE {from} \cup EhTaken(from + 1, limit)

\* A mutation of the loop that passes over the relocations of a dropped
\* record: the iterator is left where it was.
EhAfterDropped_NotAdvanced(from, limit) == from

\* the iterator once the relocations of a dropped record were passed over
EhAfterDropped(from, limit) == from + Cardinality(EhTaken(from, limit))

\* A mutation of line 825: the CIE pointer of the input is kept.
EhCieOffset_Input(output_pos, output_cie_pos, cie_id) == cie_id

\* line 825: the distance from the CIE pointer of the copied FDE back to the
\* copy of its CIE
EhCieOffset(output_pos, output_cie_pos, cie_id) == output_pos + 4 - output_cie_pos

\* The test of lines 773-829 on an FDE: whether to keep it, or the error
\* that ends the function, and the EhFrameHdrEntry written meanwhile.
\* "drop", "keep", "err_...", or "panic" when headers_out has no entry left
\* (or when the pending relocation lies before the record, which an
\* iterator in ascending order of offset never yields).
EhFdeDecision(st, prefix, next_input_pos) ==
    LET j == EhPeek(st)
        rel == e_in.relocations[j]
        cie_pointer_pos == st.input_pos + 4
        input_cie_pos == cie_pointer_pos - prefix.cie_id
        written == [st EXCEPT !.header_offset = @ + 1]
        seen == {c \in st.cies : c.input = input_cie_pos}
        output_cie_pos == (CHOOSE c \in seen : TRUE).output
        Decided(d, s) == [decision |-> d, st |-> s, cie_offset |-> 0]
    IN IF j = 0 THEN Decided("drop", st)
       ELSE IF rel.offset >= next_input_pos THEN Decided("drop", st)
       ELSE IF rel.offset < st.input_pos THEN Decided("panic", st)
       ELSE IF rel.offset - st.input_pos # FDE_PC_BEGIN_OFFSET THEN Decided("drop", st)
       ELSE IF rel.target = "undefined" THEN Decided("err_pc_begin", st)
       ELSE IF rel.target = "unresolved" THEN Decided("drop", st)
       ELSE IF prefix.cie_id > cie_pointer_pos THEN Decided("err_cie_pointer", st)
       ELSE IF rel.target = "far" THEN Decided("err_frame_ptr", st)
       ELSE IF st.header_offset >= e_in.headers_len THEN Decided("panic", st)
       ELSE IF seen = {} THEN Decided("err_no_cie", written)
       ELSE [decision |-> "keep", st |-> written,
             cie_offset |-> EhCieOffset(st.output_pos, output_cie_pos, prefix.cie_id)]

\* What lines 841-861 do with the relocations of a kept record, in order:
\* the set of those applied, and the status: "ok", the error of the first
\* that fails (in get_resolution or in apply_relocation), or "panic" for a
\* section target without a resolution (the unwrap of line 973).
RECURSIVE EhApply(_, _, _)
EhApply(from, limit, applied) ==
    IF from > Len(e_in.relocations) \/ e_in.relocations[from].offset >= limit
    THEN [status |-> "ok", applied |-> applied, next_rel |-> from]
    ELSE LET t == e_in.relocations[from].target
         IN IF t = "unresolved"
            THEN [status |-> "panic", applied |-> applied, next_rel |-> from]
            ELSE IF t = "undefined"
            THEN [status |-> "err_resolution", applied |-> applied, next_rel |-> from]
            ELSE IF t = "unappliable"
            THEN [status |-> "err_apply", applied |-> applied, next_rel |-> from]
            ELSE EhApply(from + 1, limit, applied \cup {from})

\* what the loop did with one record
EhLogged(kind, completed, kept, headers, copied, cie_offset, applied, st) ==
    [kind |-> kind, completed |-> completed, kept |-> kept, headers |-> headers,
     copied |-> copied, cie_offset |-> IF copied THEN cie_offset ELSE 0,
     applied |-> applied, input_pos |-> st.input_pos,
     output_pos |-> st.output_pos, pending |-> EhPeek(st)]

\* one iteration of the while loop of line 756
EhRecord ==
    /\ e_pc = "loop"
    /\ e_st.input_pos + PREFIX_LEN <= e_in.data_len
    /\ LET st == e_st
           prefix == e_in.prefixes[st.record]
           size == EhSize(prefix)
           next_input_pos == st.input_pos + size
           next_output_pos == st.output_pos + size
           is_cie == prefix.cie_id = 0
           d == IF is_cie
                THEN [decision |-> "keep", cie_offset |-> 0,
                      st |-> [st EXCEPT !.cies = {c \in @ : c.input # st.input_pos}
                                  \cup {[input |-> st.input_pos, output |-> st.output_pos]}]]
                ELSE EhFdeDecision(st, prefix, next_input_pos)
           kind == IF is_cie THEN "CIE" ELSE "FDE"
           headers == d.st.header_offset - st.header_offset
           Ends(status, copied, applied) ==
               /\ e_log' = Append(e_log, EhLogged(kind, FALSE, d.decision = "keep", headers,
                                                  copied, d.cie_offset, applied, st))
               /\ e_st' = d.st
               /\ e_pc' = IF status = "panic" THEN "panicked" ELSE "done"
               /\ e_result' = IF status = "panic" THEN e_result ELSE status
           Continues(kept, applied, next_rel) ==
               /\ e_log' = Append(e_log, EhLogged(kind, TRUE, kept, headers, kept, d.cie_offset,
                                                  applied, st))
               /\ e_st' = [d.st EXCEPT !.record = @ + 1,
                                       !.input_pos = next_input_pos,
                                       !.output_pos = IF kept THEN next_output_pos ELSE @,
                                       !.next_rel = next_rel]
               /\ UNCHANGED <<e_pc, e_result>>
       IN IF next_input_pos > e_in.data_len THEN Ends("err_invalid", FALSE, {})
          ELSE IF d.decision \notin {"keep", "drop"} THEN Ends(d.decision, FALSE, {})
          ELSE IF d.decision = "drop"
               THEN Continues(FALSE, {}, EhAfterDropped(st.next_rel, next_input_pos))
          ELSE IF next_output_pos > e_in.output_len THEN Ends("err_allocation", FALSE, {})
          ELSE LET a == EhApply(st.next_rel, next_input_pos, {})
               IN IF a.status # "ok" THEN Ends(a.status, TRUE, a.applied)
                  ELSE Continues(TRUE, a.applied, a.next_rel)
    /\ UNCHANGED <<splitVars, outVars, objVars, lateVars, gotVars, relVars, e_in>>

\* the loop is through: the bytes that are left are copied (the slice of
\* line 880 panics when the output has no room for them)
EhReturn ==
    /\ e_pc = "loop"
    /\ e_st.input_pos + PREFIX_LEN > e_in.data_len
    /\ LET remaining == e_in.data_len - e_st.input_pos
       IN IF remaining > 0 /\ e_st.output_pos + remaining > e_in.output_len
          THEN e_pc' = "panicked" /\ e_result' = e_result
          ELSE e_pc' = "done" /\ e_result' = "ok"
    /\ UNCHANGED <<splitVars, outVars, objVars, lateVars, gotVars, relVars, e_in, e_st, e_log>>

EhNext == EhRecord \/ EhReturn

-----------------------------------------------------------------------------
(* The post-pass of SizedOutput::write over the bytes of the file (SpecSort) *)

\* size_of::<elf::EhFrameHdr>() and size_of::<elf::EhFrameHdrEntry>(), in bytes
EhFrameHdrSize == 12
EhFrameHdrEntrySize == 8

MaxSortedEntries == 3

\* eh_frame_hdr_entry_count: the entry_count that write_eh_frame_hdr puts in
\* the EhFrameHdr, from the mem_size of the section in the layout
eh_frame_hdr_entry_count(mem_size) == (mem_size - EhFrameHdrSize) \div EhFrameHdrEntrySize

\* i32::from_le_bytes
from_le_bytes_i32(b) ==
    (b[1] + 256 * b[2] + 65536 * b[3])
      + 16777216 * (IF b[4] >= 128 THEN b[4] - 256 ELSE b[4])

\* A mutation of the key: the sign bit of frame_ptr is not read.
frame_ptr_Unsigned(e) ==
    e[1] + 256 * e[2] + 65536 * e[3] + 16777216 * (e[4] % 128)

\* the key of line 242: e.frame_ptr, the first field of an EhFrameHdrEntry
frame_ptr(e) == from_le_bytes_i32(SubSeq(e, 1, 4))

\* A mutation of the sort: an entry whose key is already there is left out.
RECURSIVE InsertEntry_Dedup(_, _)
InsertEntry_Dedup(sorted, e) ==
    IF sorted = <<>> THEN <<e>>
    ELSE IF frame_ptr(Head(sorted)) = frame_ptr(e) THEN sorted
    ELSE IF frame_ptr(Head(sorted)) < frame_ptr(e)
         THEN <<Head(sorted)>> \o InsertEntry_Dedup(Tail(sorted), e)
    ELSE <<e>> \o sorted

\* slice::sort_by_key(|e| e.frame_ptr): a stable sort
RECURSIVE InsertEntry(_, _)
InsertEntry(sorted, e) ==
    IF sorted = <<>> THEN <<e>>
    ELSE IF frame_ptr(Head(sorted)) <= frame_ptr(e)
         THEN <<Head(sorted)>> \o InsertEntry(Tail(sorted), e)
    ELSE <<e>> \o sorted

RECURSIVE sort_by_key(_)
sort_by_key(entries) ==
    IF entries = <<>> THEN <<>>
    ELSE InsertEntry(sort_by_key(SubSeq(entries, 1, Len(entries) - 1)), entries[Len(entries)])

\* bytemuck::cast_slice_mut::<u8, EhFrameHdrEntry>: the entries a byte slice holds
EntriesOf(bytes) ==
    [k \in 1..(Len(bytes) \div EhFrameHdrEntrySize) |->
        SubSeq(bytes, EhFrameHdrEntrySize * (k - 1) + 1, EhFrameHdrEntrySize * k)]

RECURSIVE BytesOf(_)
BytesOf(entries) ==
    IF entries = <<>> THEN <<>> ELSE Head(entries) \o BytesOf(Tail(entries))

\* line 240: the entries follow the EhFrameHdr
EntriesStart == EhFrameHdrSize

\* cast_slice_mut panics unless the bytes are whole entries and start at an
\* address aligned for an i32 (the mmap starts at a page)
CanCastEntries(buf) ==
    /\ (buf.len - EntriesStart) % EhFrameHdrEntrySize = 0
    /\ (buf.lo + EntriesStart) % 4 = 0

\* sort_eh_frame_hdr_entries on the bytes of the file: m is the mmap, buf
\* the slice of .eh_frame_hdr in it. [status, mmap]
sort_eh_frame_hdr_bytes(m, buf) ==
    IF buf.len < EntriesStart THEN [status |-> "panic", mmap |-> m]
    ELSE IF ~CanCastEntries(buf) THEN [status |-> "panic", mmap |-> m]
    ELSE LET first == buf.lo + EntriesStart
             last == buf.lo + buf.len
             sorted == BytesOf(sort_by_key(EntriesOf(SubSeq(m, first + 1, last))))
         IN [status |-> "ok",
             mmap |-> SubSeq(m, 1, first) \o sorted \o SubSeq(m, last + 1, Len(m))]

\* ---- the inputs

\* frame_ptr values at the ends of the i32 range and around zero, as bytes
SortFramePtrs ==
    {<<0, 0, 0, 128>>, <<255, 255, 255, 255>>, <<0, 0, 0, 0>>, <<255, 0, 0, 0>>,
     <<0, 1, 0, 0>>, <<255, 255, 255, 127>>}

\* the entries the contributors wrote, in the order of their buffers; the
\* k-th has frame_info_ptr k
EntriesWritten(fps) == [k \in 1..Len(fps) |-> fps[k] \o <<k, 0, 0, 0>>]

\* the EhFrameHdr of a table of n entries
HeaderWritten(n) == <<1, 59, 3, 27, 16, 0, 0, 0, n, 0, 0, 0>>

\* the bytes of .text, before .eh_frame_hdr in the file, and of .data, after
TextWritten(n) == [k \in 1..n |-> 200 + k]
DataWritten == <<144, 195>>

\* the layout of a file of these three sections
SortLayout(text_size, hdr_size) ==
    [id \in SectionIdSet |->
        CASE id = "text" -> [file_offset |-> 0, file_size |-> text_size]
          [] id = "eh_frame_hdr" -> [file_offset |-> text_size, file_size |-> hdr_size]
          [] OTHER -> [file_offset |-> text_size + hdr_size, file_size |-> Len(DataWritten)]]

SortIdle ==
    /\ h_pc = "idle"
    /\ h_in = <<>>
    /\ h_mmap = <<>>
    /\ h_result = "none"

\* write_file_contents has returned Ok: the sections are written, the
\* entries of .eh_frame_hdr in the order the contributors came. The section
\* may be missing, or longer than its entries by half an entry, or start at
\* an odd offset.
SortInit ==
    /\ h_pc = "sort"
    /\ \E fps \in SeqsUpTo(SortFramePtrs, MaxSortedEntries), text_size \in {4, 6, 8},
          shape \in {"table", "absent", "half"} :
        LET hdr == CASE shape = "absent" -> <<>>
                     [] shape = "half" -> HeaderWritten(Len(fps)) \o BytesOf(EntriesWritten(fps))
                                            \o <<0, 0, 0, 0>>
                     [] OTHER -> HeaderWritten(Len(fps)) \o BytesOf(EntriesWritten(fps))
        IN /\ shape = "table" \/ (Len(fps) <= 1 /\ text_size = 4)
           /\ h_in = [section_layouts |-> SortLayout(text_size, Len(hdr)),
                      entries |-> IF shape = "absent" THEN <<>> ELSE EntriesWritten(fps),
                      mmap |-> TextWritten(text_size) \o hdr \o DataWritten]
           /\ h_mmap = h_in.mmap
    /\ h_result = "none"

\* lines 167-168: a fresh split_output_into_sections, then
\* sort_eh_frame_hdr_entries on the .eh_frame_hdr slice
SortPass ==
    /\ h_pc = "sort"
    /\ LET r == split_output_into_sections(h_in.section_layouts, Len(h_mmap))
           s == sort_eh_frame_hdr_bytes(h_mmap, r.section_data["eh_frame_hdr"])
       IN IF r.status = "ok" /\ s.status = "ok"
          THEN h_mmap' = s.mmap /\ h_pc' = "chmod"
          ELSE h_pc' = "panicked" /\ UNCHANGED h_mmap
    /\ UNCHANGED <<SortOthers, h_in, h_result>>

\* lines 169-171: crate::fs::make_executable(&self.file)?; Ok(())
SortPassReturn ==
    /\ h_pc = "chmod"
    /\ \E ok \in BOOLEAN : h_result' = IF ok THEN "ok" ELSE "err_make_executable"
    /\ h_pc' = "done"
    /\ UNCHANGED <<SortOthers, h_in, h_mmap>>

SortNext == SortPass \/ SortPassReturn

-----------------------------------------------------------------------------
(* InternalLayout::write from the .dynamic table on, one entry per step (SpecDyn) *)

NUM_DYNAMIC_ENTRIES == 18

\* size_of::<elf::SymtabEntry>(), and elf::RELA_ENTRY_SIZE = size_of::<elf::Rela>()
SymtabEntrySize == 24
RelaEntrySize == 24

\* size_of::<DynamicEntry>(): tag and value, two u64
DynamicEntrySize == 16

\* the .dynamic buffers the model tries hold up to this many entries
MaxDynamicEntries == 19

\* what write_dynamic_entries reads of the layout: offset_of_section and
\* size_of_section of a section
DynSections == {"INIT", "FINI", "INIT_ARRAY", "FINI_ARRAY", "DYNSTR", "DYNSYM", "RELA_DYN"}

\* lines 1419-1510: the calls of write_dynamic_entry, in order
DynamicCalls(l) ==
    <<[tag |-> "Init", value |-> l.offset["INIT"]],
      [tag |-> "Fini", value |-> l.offset["FINI"]],
      [tag |-> "InitArray", value |-> l.offset["INIT_ARRAY"]],
      [tag |-> "InitArraySize", value |-> l.size["INIT_ARRAY"]],
      [tag |-> "FiniArray", value |-> l.offset["FINI_ARRAY"]],
      [tag |-> "FiniArraySize", value |-> l.size["FINI_ARRAY"]],
      [tag |-> "StrTab", value |-> l.offset["DYNSTR"]],
      [tag |-> "StrSize", value |-> l.size["DYNSTR"]],
      [tag |-> "SymTab", value |-> l.offset["DYNSYM"]],
      [tag |-> "SymEnt", value |-> SymtabEntrySize],
      [tag |-> "Debug", value |-> 0],
      [tag |-> "Rela", value |-> l.offset["RELA_DYN"]],
      [tag |-> "RelaSize", value |-> l.size["RELA_DYN"]],
      [tag |-> "RelaEnt", value |-> RelaEntrySize],
      [tag |-> "RelaCount", value |-> l.size["RELA_DYN"] \div RelaEntrySize],
      [tag |-> "Flags", value |-> "BIND_NOW"],
      [tag |-> "Flags1", value |-> "PIE|NOW"],
      [tag |-> "Null", value |-> 0]>>

\* an entry of a new file: zero bytes, which read as tag Null, value 0; the
\* model counts the writes to each entry
ZeroDynamicEntry == [tag |-> "Null", value |-> 0, writes |-> 0]

\* A mutation of write_dynamic_entry: the entry is written, not taken.
write_dynamic_entry_NotTaken(out, tag, value) ==
    IF out.next > Len(out.table) THEN [status |-> "err_dynamic", out |-> out]
    ELSE [status |-> "ok",
          out |-> [out EXCEPT !.table[out.next] =
                                 [tag |-> tag, value |-> value, writes |-> @.writes + 1]]]

\* write_dynamic_entry: out is the table and the index of the first entry
\* not yet taken
write_dynamic_entry(out, tag, value) ==
    IF out.next > Len(out.table) THEN [status |-> "err_dynamic", out |-> out]
    ELSE [status |-> "ok",
          out |-> [table |-> [out.table EXCEPT ![out.next] =
                                 [tag |-> tag, value |-> value, writes |-> @.writes + 1]],
                   next |-> out.next + 1]]

DynLayouts ==
    {[offset |-> [s \in DynSections |-> 64],
      size |-> [s \in DynSections |-> IF s = "RELA_DYN" THEN n * RelaEntrySize
                                     ELSE IF s = "INIT_ARRAY" THEN a ELSE 8]] :
        n \in 0..MaxRelaDyn, a \in {0, 8, 16}}

DynIdle ==
    /\ d_pc = "idle"
    /\ d_in = <<>>
    /\ d_out = <<>>
    /\ d_calls = 0
    /\ d_result = "none"

\* InternalLayout::write has come to line 1282; the .dynamic buffer is as
\* the new file has it
DynInit ==
    /\ d_pc = "pie"
    /\ \E pie \in BOOLEAN, l \in DynLayouts, n \in 0..MaxDynamicEntries, odd \in {0, 8} :
        /\ n >= NUM_DYNAMIC_ENTRIES - 1 \/ n = 0
        /\ odd = 0 \/ n = NUM_DYNAMIC_ENTRIES
        /\ d_in = [pie |-> pie, layout |-> l, dynamic_len |-> n * DynamicEntrySize + odd]
    /\ d_out = [table |-> [k \in 1..(d_in.dynamic_len \div DynamicEntrySize) |-> ZeroDynamicEntry],
                next |-> 1]
    /\ d_calls = 0
    /\ d_result = "none"

\* line 1282, and lines 1417-1418: cast_slice_mut panics unless the buffer
\* is whole entries, assert_eq unless they are NUM_DYNAMIC_ENTRIES
DynBegin ==
    /\ d_pc = "pie"
    /\ d_pc' = IF ~d_in.pie THEN "validate"
               ELSE IF d_in.dynamic_len % DynamicEntrySize # 0 THEN "panicked"
               ELSE IF Len(d_out.table) # NUM_DYNAMIC_ENTRIES THEN "panicked"
               ELSE "entries"
    /\ UNCHANGED <<DynOthers, d_in, d_out, d_calls, d_result>>

\* one call of write_dynamic_entry, with its `?`
DynWriteEntry ==
    /\ d_pc = "entries"
    /\ d_calls < Len(DynamicCalls(d_in.layout))
    /\ LET c == DynamicCalls(d_in.layout)[d_calls + 1]
           w == write_dynamic_entry(d_out, c.tag, c.value)
       IN /\ d_out' = w.out
          /\ IF w.status = "ok"
             THEN UNCHANGED <<d_pc, d_result>>
             ELSE d_pc' = "done" /\ d_result' = w.status
    /\ d_calls' = d_calls + 1
    /\ UNCHANGED <<DynOthers, d_in>>

\* line 1510: Ok(()) of write_dynamic_entries
DynEntriesReturn ==
    /\ d_pc = "entries"
    /\ d_calls = Len(DynamicCalls(d_in.layout))
    /\ d_pc' = "validate"
    /\ UNCHANGED <<DynOthers, d_in, d_out, d_calls, d_result>>

\* lines 1286-1288: relocation_writer.validate_empty()?; Ok(())
DynValidate ==
    /\ d_pc = "validate"
    /\ \E residual_empty \in BOOLEAN :
        d_result' = IF residual_empty THEN "ok" ELSE "err_rela_dyn"
    /\ d_pc' = "done"
    /\ UNCHANGED <<DynOthers, d_in, d_out, d_calls>>

DynNext == DynBegin \/ DynWriteEntry \/ DynEntriesReturn \/ DynValidate

-----------------------------------------------------------------------------
(* write_section_headers and write_section_header_strings, one section per
   step (SpecShdr) *)

\* size_of::<SectionHeader>()
SectionHeaderSize == 64

\* sections_do visits at most this many sections
MaxShdrSections == 3

\* the section names the model tries: byte strings, the empty one included
ShdrNames == {<<>>, <<97>>, <<98, 97>>}

\* a section as the two writers see it: its name and whether
\* output_index_of_section is Some
ShdrSectionLists ==
    UNION {[1..n -> [name : ShdrNames, has_index : BOOLEAN]] : n \in 0..MaxShdrSections}

\* the sections with an output index among the first n of sections_do
ShdrEmitted(sections, n) == {i \in 1..n : i <= Len(sections) /\ sections[i].has_index}

RECURSIVE ShdrNameBytes(_, _)
\* len(name) + 1 summed over the sections with an output index among the first n
ShdrNameBytes(sections, n) ==
    IF n = 0 THEN 0
    ELSE ShdrNameBytes(sections, n - 1)
         + (IF sections[n].has_index THEN Len(sections[n].name) + 1 ELSE 0)

\* A mutation of the closure of write_section_headers: name_offset advances
\* by the name's length only.
write_section_header_NoNul(st, section_id, section) ==
    IF ~section.has_index THEN st
    ELSE IF st.next > Len(st.entries) THEN [st EXCEPT !.status = "panicked"]
    ELSE [st EXCEPT !.entries[st.next] = [name |-> st.name_offset, section |-> section_id],
                    !.next = @ + 1,
                    !.name_offset = @ + Len(section.name)]

\* the closure of write_section_headers for one section; st is the iterator
\* (the entries and the index of the next one) and name_offset
write_section_header(st, section_id, section) ==
    IF ~section.has_index THEN st
    ELSE IF st.next > Len(st.entries) THEN [st EXCEPT !.status = "panicked"]
    ELSE [st EXCEPT !.entries[st.next] = [name |-> st.name_offset, section |-> section_id],
                    !.next = @ + 1,
                    !.name_offset = @ + Len(section.name) + 1]

\* the closure of write_section_header_strings for one section; out is the
\* bytes of .shstrtab and the number of bytes already taken from it
write_section_header_string(out, section) ==
    IF ~section.has_index THEN out
    ELSE IF Len(section.name) + 1 > Len(out.bytes) - out.taken
         THEN [out EXCEPT !.status = "panicked"]
    ELSE [out EXCEPT
            !.bytes = [k \in 1..Len(out.bytes) |->
                         IF k > out.taken /\ k <= out.taken + Len(section.name)
                         THEN section.name[k - out.taken]
                         ELSE IF k = out.taken + Len(section.name) + 1 THEN 0
                         ELSE out.bytes[k]],
            !.taken = @ + Len(section.name) + 1]

\* an entry of a new file: zero bytes; section 0 stands for no section
ZeroSectionHeader == [name |-> 0, section |-> 0]

ShdrIdle ==
    /\ sh_pc = "idle"
    /\ sh_in = <<>>
    /\ sh_hdr = <<>>
    /\ sh_str = <<>>
    /\ sh_i = 0
    /\ sh_result = "none"

\* InternalLayout::write has come to line 1265; the buffers are as the new
\* file has them
ShdrInit ==
    /\ sh_pc = "cast"
    /\ \E sections \in ShdrSectionLists, slots \in 0..(MaxShdrSections + 1), odd \in {0, 8},
          strtab \in 0..(3 * MaxShdrSections + 1) :
        /\ slots \in {Cardinality(ShdrEmitted(sections, Len(sections))) + d : d \in {-1, 0, 1}}
        /\ odd = 0 \/ slots = Cardinality(ShdrEmitted(sections, Len(sections)))
        /\ strtab \in {ShdrNameBytes(sections, Len(sections)) + d : d \in {-1, 0, 1}}
        /\ sh_in = [sections |-> sections,
                    headers_len |-> slots * SectionHeaderSize + odd,
                    shstrtab_len |-> strtab]
    /\ sh_hdr = [entries |-> [k \in 1..(sh_in.headers_len \div SectionHeaderSize) |->
                                ZeroSectionHeader],
                 next |-> 1, name_offset |-> 0, status |-> "ok"]
    /\ sh_str = [bytes |-> [k \in 1..sh_in.shstrtab_len |-> 0], taken |-> 0, status |-> "ok"]
    /\ sh_i = 0
    /\ sh_result = "none"

\* line 1571: cast_slice_mut panics unless the buffer is whole entries
ShdrCast ==
    /\ sh_pc = "cast"
    /\ IF sh_in.headers_len % SectionHeaderSize # 0
       THEN sh_pc' = "done" /\ sh_result' = "panicked" /\ sh_i' = sh_i
       ELSE sh_pc' = "headers" /\ sh_result' = sh_result /\ sh_i' = 1
    /\ UNCHANGED <<ShdrOthers, sh_in, sh_hdr, sh_str>>

\* lines 1575-1612: sections_do calls the closure for the next section
ShdrSection ==
    /\ sh_pc = "headers"
    /\ sh_i <= Len(sh_in.sections)
    /\ LET st == write_section_header(sh_hdr, sh_i, sh_in.sections[sh_i]) IN
        /\ sh_hdr' = st
        /\ IF st.status = "panicked"
           THEN sh_pc' = "done" /\ sh_result' = "panicked" /\ sh_i' = sh_i
           ELSE sh_pc' = sh_pc /\ sh_result' = sh_result /\ sh_i' = sh_i + 1
    /\ UNCHANGED <<ShdrOthers, sh_in, sh_str>>

\* lines 1613-1616, then line 1267
ShdrAssertUsed ==
    /\ sh_pc = "headers"
    /\ sh_i > Len(sh_in.sections)
    /\ IF sh_hdr.next <= Len(sh_hdr.entries)
       THEN sh_pc' = "done" /\ sh_result' = "panicked" /\ sh_i' = sh_i
       ELSE sh_pc' = "strings" /\ sh_result' = sh_result /\ sh_i' = 1
    /\ UNCHANGED <<ShdrOthers, sh_in, sh_hdr, sh_str>>

\* lines 1620-1627: sections_do calls the closure for the next section
ShdrString ==
    /\ sh_pc = "strings"
    /\ sh_i <= Len(sh_in.sections)
    /\ LET out == write_section_header_string(sh_str, sh_in.sections[sh_i]) IN
        /\ sh_str' = out
        /\ IF out.status = "panicked"
           THEN sh_pc' = "done" /\ sh_result' = "panicked" /\ sh_i' = sh_i
           ELSE sh_pc' = sh_pc /\ sh_result' = sh_result /\ sh_i' = sh_i + 1
    /\ UNCHANGED <<ShdrOthers, sh_in, sh_hdr>>

\* line 1628: write_section_header_strings returns
ShdrStringsReturn ==
    /\ sh_pc = "strings"
    /\ sh_i > Len(sh_in.sections)
    /\ sh_pc' = "done"
    /\ sh_result' = "ok"
    /\ UNCHANGED <<ShdrOthers, sh_in, sh_hdr, sh_str, sh_i>>

ShdrNext ==
    \/ ShdrCast
    \/ ShdrSection
    \/ ShdrAssertUsed
    \/ ShdrString
    \/ ShdrStringsReturn

-----------------------------------------------------------------------------
(* SymbolTableWriter: define_symbol call by call, then check_exhausted
   (SpecSym) *)

\* at most this many define_symbol calls are made on one writer
MaxDefined == 3

\* the symbol names the model tries: byte strings, the empty one included
SymNames == {<<>>, <<97>>, <<98, 97>>}

\* the start offsets, the entries of a bucket and the string bytes the
\* model tries
SymStartOffsets == {0, 5}
SymBucketSizes == 0..2
SymStringSizes == 0..6

\* an entry of a new file: zero bytes; symbol 0 stands for shndx, value and
\* size all zero
ZeroSymtabEntry == [name |-> 0, info |-> 0, other |-> 0, symbol |-> 0]

\* SymbolTableWriter::new: string_offset, the two buckets (the entries and
\* how many were taken) and the string buffer (the bytes and how many were
\* taken)
SymWriter_new(start_string_offset, locals, globals, strings) ==
    [string_offset |-> start_string_offset,
     local_entries |-> [entries |-> [k \in 1..locals |-> ZeroSymtabEntry], taken |-> 0],
     global_entries |-> [entries |-> [k \in 1..globals |-> ZeroSymtabEntry], taken |-> 0],
     strings |-> [bytes |-> [k \in 1..strings |-> 0], taken |-> 0],
     status |-> "ok"]

\* lines 521-533: one entry is taken from the bucket and assigned
SymTakeEntry(bucket, name_offset, symbol) ==
    [entries |-> [bucket.entries EXCEPT ![bucket.taken + 1] =
                     [name |-> name_offset, info |-> 0, other |-> 0, symbol |-> symbol]],
     taken |-> bucket.taken + 1]

\* lines 534-537: name + NUL goes to the front of what is left of strings
SymAppendName(strings, name) ==
    [bytes |-> [k \in 1..Len(strings.bytes) |->
                  IF k > strings.taken /\ k <= strings.taken + Len(name)
                  THEN name[k - strings.taken]
                  ELSE IF k = strings.taken + Len(name) + 1 THEN 0
                  ELSE strings.bytes[k]],
     taken |-> strings.taken + Len(name) + 1]

\* A mutation of define_symbol: the entry's name is the offset after the
\* name was appended.
define_symbol_bytes_NameAfter(w, is_local, symbol, name) ==
    LET bucket == IF is_local THEN w.local_entries ELSE w.global_entries
        after == w.string_offset + Len(name) + 1 IN
    IF bucket.taken + 1 > Len(bucket.entries) THEN [w EXCEPT !.status = "panicked"]
    ELSE LET w1 == IF is_local
                   THEN [w EXCEPT !.local_entries = SymTakeEntry(bucket, after, symbol)]
                   ELSE [w EXCEPT !.global_entries = SymTakeEntry(bucket, after, symbol)]
         IN IF Len(name) + 1 > Len(w.strings.bytes) - w.strings.taken
            THEN [w1 EXCEPT !.status = "panicked"]
            ELSE [w1 EXCEPT !.strings = SymAppendName(w.strings, name),
                            !.string_offset = after]

\* SymbolTableWriter::define_symbol, with the entries and the bytes it writes
define_symbol_bytes(w, is_local, symbol, name) ==
    LET bucket == IF is_local THEN w.local_entries ELSE w.global_entries IN
    IF bucket.taken + 1 > Len(bucket.entries) THEN [w EXCEPT !.status = "panicked"]
    ELSE LET w1 == IF is_local
                   THEN [w EXCEPT !.local_entries =
                                     SymTakeEntry(bucket, w.string_offset, symbol)]
                   ELSE [w EXCEPT !.global_entries =
                                     SymTakeEntry(bucket, w.string_offset, symbol)]
         IN IF Len(name) + 1 > Len(w.strings.bytes) - w.strings.taken
            THEN [w1 EXCEPT !.status = "panicked"]
            ELSE [w1 EXCEPT !.strings = SymAppendName(w.strings, name),
                            !.string_offset = @ + Len(name) + 1]

\* SymbolTableWriter::check_exhausted on the same writer
check_exhausted_bytes(w) ==
    IF \/ w.local_entries.taken # Len(w.local_entries.entries)
       \/ w.global_entries.taken # Len(w.global_entries.entries)
       \/ w.strings.taken # Len(w.strings.bytes)
    THEN "err_symtab" ELSE "ok"

SymIdle ==
    /\ y_pc = "idle"
    /\ y_in = <<>>
    /\ y_w = <<>>
    /\ y_log = <<>>
    /\ y_result = "none"

\* the writer as SymbolTableWriter::new returns it
SymInit ==
    /\ y_pc = "symbols"
    /\ \E start \in SymStartOffsets, locals \in SymBucketSizes, globals \in SymBucketSizes,
          strings \in SymStringSizes :
        /\ y_in = [start_string_offset |-> start]
        /\ y_w = SymWriter_new(start, locals, globals, strings)
    /\ y_log = <<>>
    /\ y_result = "none"

\* one define_symbol call (lines 1376 and 1409, and copy_symbol at line 507)
SymDefine ==
    /\ y_pc = "symbols"
    /\ Len(y_log) < MaxDefined
    /\ \E is_local \in BOOLEAN, name \in SymNames :
        LET symbol == Len(y_log) + 1
            w == define_symbol_bytes(y_w, is_local, symbol, name) IN
        /\ y_w' = w
        /\ y_log' = Append(y_log, [is_local |-> is_local, name |-> name, symbol |-> symbol])
        /\ IF w.status = "panicked"
           THEN y_pc' = "done" /\ y_result' = "panicked"
           ELSE y_pc' = y_pc /\ y_result' = y_result
    /\ UNCHANGED <<SymOthers, y_in>>

\* lines 693 and 1412: check_exhausted after the last symbol
SymCheckExhausted ==
    /\ y_pc = "symbols"
    /\ y_pc' = "done"
    /\ y_result' = check_exhausted_bytes(y_w)
    /\ UNCHANGED <<SymOthers, y_in, y_w, y_log>>

SymNext ==
    \/ SymDefine
    \/ SymCheckExhausted

LateIdle == SortIdle /\ DynIdle /\ ShdrIdle /\ SymIdle

RelocIdle == GotIdle /\ RelIdle /\ EhIdle /\ LateIdle

-----------------------------------------------------------------------------
(* The specifications *)

SplitSpecInit == SplitInit /\ OutIdle /\ ObjIdle /\ RelocIdle
SplitSpecNext == SplitNext
SpecSplit == SplitSpecInit /\ [][SplitSpecNext]_vars

Init == OutInit /\ SplitIdle /\ ObjIdle /\ RelocIdle
Next == OutNext
Spec == Init /\ [][Next]_vars

\* The scheduling of provisioning: rayon runs a spawned closure (the pool has
\* more than one thread in Background mode), and recv returns once a result is
\* in the channel.  Provisioning reads nothing of the layout but the file size,
\* so the layout is the one in which every contributor fills every part.
LiveLayout ==
    MakeLayout([f \in Files |->
                   [kind |-> "Object", file_sizes |-> [p \in PartSet |-> MaxPartSize]]])
LiveInit == Init /\ layout = LiveLayout
LiveSpec ==
    LiveInit /\ [][Next]_vars /\ WF_vars(WorkerProvision) /\ WF_vars(WaitForSizedOutput)

ObjSpecInit == ObjInit /\ SplitIdle /\ OutIdle /\ RelocIdle
ObjSpecNext == ObjNext
SpecObj == ObjSpecInit /\ [][ObjSpecNext]_vars

GotSpecInit == GotInit /\ SplitIdle /\ OutIdle /\ ObjIdle /\ RelIdle /\ EhIdle /\ LateIdle
GotSpecNext == GotNext
SpecGot == GotSpecInit /\ [][GotSpecNext]_vars

RelSpecInit == RelInit /\ SplitIdle /\ OutIdle /\ ObjIdle /\ GotIdle /\ EhIdle /\ LateIdle
RelSpecNext == RelNext
SpecRel == RelSpecInit /\ [][RelSpecNext]_vars

EhSpecInit == EhInit /\ SplitIdle /\ OutIdle /\ ObjIdle /\ GotIdle /\ RelIdle /\ LateIdle
EhSpecNext == EhNext
SpecEh == EhSpecInit /\ [][EhSpecNext]_vars

SortSpecInit == SortInit /\ SplitIdle /\ OutIdle /\ ObjIdle /\ GotIdle /\ RelIdle /\ EhIdle /\ DynIdle /\ ShdrIdle /\ SymIdle
SortSpecNext == SortNext
SpecSort == SortSpecInit /\ [][SortSpecNext]_vars

DynSpecInit == DynInit /\ SplitIdle /\ OutIdle /\ ObjIdle /\ GotIdle /\ RelIdle /\ EhIdle /\ SortIdle /\ ShdrIdle /\ SymIdle
DynSpecNext == DynNext
SpecDyn == DynSpecInit /\ [][DynSpecNext]_vars

ShdrSpecInit == ShdrInit /\ SplitIdle /\ OutIdle /\ ObjIdle /\ GotIdle /\ RelIdle /\ EhIdle /\ SortIdle /\ DynIdle /\ SymIdle
ShdrSpecNext == ShdrNext
SpecShdr == ShdrSpecInit /\ [][ShdrSpecNext]_vars

SymSpecInit == SymInit /\ SplitIdle /\ OutIdle /\ ObjIdle /\ GotIdle /\ RelIdle /\ EhIdle /\ SortIdle /\ DynIdle /\ ShdrIdle
SymSpecNext == SymNext
SpecSym == SymSpecInit /\ [][SymSpecNext]_vars

-----------------------------------------------------------------------------
(* Properties of Stage A (SpecSplit) *)

Disjoint(s, t) == CellsOf(s) \cap CellsOf(t) = {}

\* C1: after split_output_into_sections has returned, the slice of every
\* section is exactly the cells [file_offset, file_offset + file_size) of the
\* mmap, and the slices of two distinct sections share no cell.
C1_SectionSlices ==
    sa_pc = "returned" =>
        /\ \A id \in SectionIdSet :
            /\ sa_st.section_data[id] =
                   Slice(sa_layouts[id].file_offset, sa_layouts[id].file_size)
            /\ CellsOf(sa_st.section_data[id]) \subseteq 0..(sa_mmap_len - 1)
        /\ \A id1, id2 \in SectionIdSet :
            id1 # id2 => Disjoint(sa_st.section_data[id1], sa_st.section_data[id2])

\* Stage A has returned for three non-empty sections whose offset order
\* differs from the id order, with padding between two of them.
C1_Witness ==
    /\ sa_pc = "returned"
    /\ \A id \in SectionIdSet : sa_layouts[id].file_size > 0
    /\ sa_layouts["data"].file_offset < sa_layouts["eh_frame_hdr"].file_offset
    /\ sa_layouts["eh_frame_hdr"].file_offset + sa_layouts["eh_frame_hdr"].file_size
         < sa_layouts["text"].file_offset

-----------------------------------------------------------------------------
(* Properties of Output::write (Spec, LiveSpec) *)

Occurred(e) == \E i \in DOMAIN events : events[i] = e
Count(e) == Cardinality({i \in DOMAIN events : events[i] = e})

\* the buffers handed to the contributors share no cell
BuffersDisjoint ==
    \A f, g \in Files : \A p, q \in PartSet :
        (f # g \/ p # q) => Disjoint(files_and_buffers[f][p], files_and_buffers[g][q])

NoCellWrittenTwice == \A c \in DOMAIN written_by : Cardinality(written_by[c]) <= 1

\* every task of the parallel iterator has ended
ParallelOver == pc \in {"par", "sort"} /\ \A f \in Files : wpc[f] \in Finished

\* The contributors run one after another in file_layouts order, each doing
\* what it did in this run; a sequential collect stops at the first that fails.
RECURSIVE SeqRun(_, _)
SeqRun(m, f) ==
    IF f \notin Files THEN m
    ELSE LET m1 == WriteBuffers(m, f, files_and_buffers[f], SubSeq(PartOrder, 1, wpos[f]))
         IN IF wpc[f] \in Failed THEN m1 ELSE SeqRun(m1, f + 1)

SeqContent == SeqRun(ZeroCells(file.len), 1)

Rank(e) ==
    CASE e = "mapped" -> 1
      [] e \in {"start", "finish"} -> 2
      [] e = "sort" -> 3
      [] e = "chmod" -> 4

\* C3: in every execution, background or inline, the file is created, sized and
\* mapped once, before any contributor starts; every contributor that started
\* has finished before the sort; the sort precedes make_executable; a
\* contributor runs, and a cell is written, only while the mmap exists and
\* the sort has not begun.
C3_EventOrder ==
    /\ \A i, j \in DOMAIN events : i < j => Rank(events[i]) <= Rank(events[j])
    /\ events # <<>> => events[1] = "mapped"
    /\ Count("mapped") <= 1 /\ Count("sort") <= 1 /\ Count("chmod") <= 1
    /\ Occurred("sort") =>
          /\ Count("start") = Count("finish")
          /\ \A f \in Files : wpc[f] \in Finished
    /\ Occurred("chmod") => Occurred("sort")
    /\ (\E f \in Files : wpc[f] = "running") => mapped /\ ~Occurred("sort")
    /\ (\E c \in DOMAIN written_by : written_by[c] # {}) => Occurred("start")
    /\ \A f \in Files : wpos[f] > 0 => wpc[f] \notin {"pending", "skipped"}

\* A successful write in Background mode: mapped, two starts, two finishes,
\* the sort, make_executable.
C3_Witness ==
    /\ creator.kind = "Background"
    /\ pc = "done"
    /\ result = "ok"
    /\ events = <<"mapped", "start", "start", "finish", "finish", "sort", "chmod">>

\* C4: if the write of a contributor returned an error, Output::write does not
\* return Ok (it returns the contributor's error once it returns), the
\* .eh_frame_hdr entries are not sorted and make_executable is not called.
C4_ContributorError ==
    (\E f \in Files : wpc[f] = "err") =>
        /\ result \in {"none", "err_contributor"}
        /\ pc \in {"par", "done", "panicked"}
        /\ pc = "done" => result = "err_contributor"
        /\ ~Occurred("sort")
        /\ ~Occurred("chmod")
        /\ ~file.executable

\* Output::write has returned the error of one contributor after the other
\* one had written all its buffers and returned Ok.
C4_Witness ==
    /\ pc = "done"
    /\ result = "err_contributor"
    /\ \E f, g \in Files : wpc[f] = "err" /\ wpc[g] = "ok" /\ wpos[g] = Len(PartOrder)

\* C5 as claimed: after Output::write has returned a contributor's error, no
\* output file holding partial contents remains at the output path.
C5_AsClaimed ==
    (pc = "done" /\ result = "err_contributor") =>
        ~(file.exists /\ \E c \in DOMAIN written_by : written_by[c] # {})

\* C6 as claimed: in both modes at most one call of set_size returns; a second
\* call is rejected.
C6_AsClaimed == calls.accepted <= 1

\* C7: once set_size has spawned the closure, the closure sends one result and
\* never a second (unless the thread that owns the Output has panicked before),
\* and a write that waits on the channel eventually receives it: it goes on
\* with the mmap when the result is Ok and returns the provisioning error
\* otherwise.  In Regular mode nothing is
\* spawned or sent, and the file is provisioned only inside write.
C7_Provisioning ==
    /\ [](calls.sent <= 1 /\ Len(chan) <= 1)
    /\ [](creator.kind = "Regular" =>
            /\ calls.sent = 0 /\ chan = <<>> /\ spawned = <<>>
            /\ Occurred("mapped") => pc \notin {"ready", "create"})
    /\ (spawned # <<>>) ~> (calls.sent = 1 \/ pc = "panicked")
    /\ (pc = "recv") ~> (pc \in {"split_a", "done"})
    /\ [][pc = "recv" /\ pc' # "recv" =>
            \/ Head(chan) = "ok" /\ pc' = "split_a" /\ mapped /\ result' = "none"
            \/ Head(chan) # "ok" /\ pc' = "done" /\ result' = "err_provision"]_vars

\* write has received the mapped output the spawned closure sent
C7_Witness ==
    /\ creator.kind = "Background"
    /\ pc = "split_a"
    /\ calls.sent = 1
    /\ mapped

-----------------------------------------------------------------------------
(* Properties of ObjectLayout::write (SpecObj) *)

WriteSucceeded == o_pc = "done" /\ o_result = "ok"

\* C8: ObjectLayout::write returns Ok only if, at its end, the residuals of
\* the .got, .plt and .rela.dyn buffers are empty; an unused slot in one of
\* them when the write comes to its end makes it return an error.  Unless
\* strip_all is set the write gets to its end only through write_symbols, and
\* write_symbols returns Ok only if the residuals of symtab locals, symtab
\* globals and symtab strings are empty.
C8_ResidualsEmpty ==
    /\ [](WriteSucceeded => o_w.got = 0 /\ o_w.plt = 0 /\ o_w.rela_dyn = 0)
    /\ []((o_pc = "done" /\ (o_w.got > 0 \/ o_w.plt > 0 \/ o_w.rela_dyn > 0)) =>
            o_result \notin {"ok", "none"})
    /\ [][o_pc' = "validate" =>
            IF o_in.strip_all THEN o_pc = "loaded_symbols" \/ o_pc = "plt_relocations"
                                   \/ o_pc = "sections" \/ o_pc = "new_relocation"
            ELSE /\ o_pc = "symbols"
                 /\ o_w.local_entries = 0 /\ o_w.global_entries = 0 /\ o_w.strings = 0]_vars
    /\ [][(o_pc = "symbols" /\ o_pc' # "symbols"
             /\ (o_w.local_entries > 0 \/ o_w.global_entries > 0 \/ o_w.strings > 0)) =>
            o_pc' \in {"done", "panicked"} /\ o_result' # "ok"]_vars
    /\ [][o_result' = "ok" => o_pc = "validate"]_vars

\* write has returned Ok after it used up a GOT slot, a PLT entry, a .rela.dyn
\* slot, a symtab entry and its name bytes.
C8_Witness ==
    /\ WriteSucceeded
    /\ o_buf.got > 0 /\ o_buf.plt > 0 /\ o_buf.rela_dyn > 0
    /\ ~o_in.strip_all
    /\ o_hist.defined

\* C9 as claimed: a contributor whose number of plt_relocations differs from
\* the number of .rela.plt entries reserved for it does not complete its write
\* successfully.
C9_AsClaimed == WriteSucceeded => o_in.plt_relocations = o_buf.rela_plt

\* C10 as claimed, as far as it says that emission fails without a crash: a
\* contributor that presents more GOT-requiring resolutions than the GOT slots
\* reserved for it never panics, and its write does not return Ok.
C10_AsClaimed ==
    (o_buf.got # NotTaken /\ GotRequiring(o_in) > o_buf.got \div GOT_ENTRY_SIZE) =>
        /\ o_pc # "panicked"
        /\ o_pc = "done" => o_result # "ok"

\* the number of .rela.dyn entries that were written
RelaDynWritten == o_buf.rela_dyn - o_w.rela_dyn

C12_WitnessAbsolute == WriteSucceeded /\ o_hist.absolute = 1 /\ RelaDynWritten = 1

-----------------------------------------------------------------------------
(* Properties of PltGotWriter::process_resolution (SpecGot) *)

\* the i32 whose little-endian bytes are b, as an i64
SignExtend(b) == b \o (IF b[4] >= 128 THEN <<255, 255, 255, 255>> ELSE <<0, 0, 0, 0>>)

\* the call has a resolution with a got_address and a plt_address, and got
\* as far as the PLT half with room for an entry
ReachedPltEntry ==
    /\ g_pc # "call"
    /\ g_in.res.got_address # None /\ g_in.res.plt_address # None
    /\ g_w.plt_pos = g_in.w.plt_pos + PLT_ENTRY_SIZE

\* got_address - (plt_address + 0xB) modulo 2^64
PltDifference ==
    wrapping_sub(g_in.res.got_address, wrapping_add(g_in.res.plt_address, U64Of(11)))

PltEntryWritten == SubSeq(g_w.plt, g_in.w.plt_pos + 1, g_in.w.plt_pos + PLT_ENTRY_SIZE)

\* C13: a PLT entry that process_resolution emits is the 16 bytes of
\* PLT_ENTRY_TEMPLATE but for bytes [7..11], which are the little-endian i32
\* that added to plt_address + 0xB gives got_address; when the difference,
\* taken as a 64-bit two's-complement number, is not an i32, the call fails
\* with the error and the offset bytes of the entry stay those of the template.
C13_PltEntry ==
    ReachedPltEntry =>
        /\ \A i \in (1..PLT_ENTRY_SIZE) \ (8..11) : PltEntryWritten[i] = PLT_ENTRY_TEMPLATE[i]
        /\ IF SignExtend(SubSeq(PltDifference, 1, 4)) = PltDifference
           THEN /\ g_result = "ok"
                /\ wrapping_add(SignExtend(SubSeq(PltEntryWritten, 8, 11)),
                                wrapping_add(g_in.res.plt_address, U64Of(11)))
                     = g_in.res.got_address
           ELSE /\ g_result = "err_plt_far"
                /\ SubSeq(PltEntryWritten, 8, 11) = SubSeq(PLT_ENTRY_TEMPLATE, 8, 11)

\* an entry was emitted with a negative offset, and another call failed
\* because the GOT is too far
C13_Witness ==
    /\ ReachedPltEntry
    /\ g_result = "ok"
    /\ PltEntryWritten[11] >= 128
    /\ PltEntryWritten[8] # 0

C13_WitnessFar == ReachedPltEntry /\ g_result = "err_plt_far"

\* the call had a resolution with a got_address and wrote its GOT entry:
\* it returned Ok, or it failed only in the PLT half
GotEntryWritten ==
    /\ g_pc = "returned"
    /\ g_in.res.got_address # None
    /\ g_result \in {"ok", "err_plt", "err_plt_far"}

\* the GOT slots as the call left them, counted from the first it could take
GotSlot(n) == g_w.got[g_in.w.got_pos + n]

RelaUntouched == g_w.rela_pos = g_in.w.rela_pos /\ g_w.rela_dyn = g_in.w.rela_dyn

\* C14: the GOT entry process_resolution writes for a resolution with a
\* got_address: GotTlsDouble takes two slots, CURRENT_EXE_TLS_MOD and then the
\* word that added to tls_end gives res.address, and no PLT entry; IFunc takes
\* one slot holding 0 and no .rela.dyn record; another kind that is not
\* GotTlsOffset takes one slot holding res.address when the relocation writer
\* is inactive, and when it is active leaves the slot zero and appends the
\* record {address = got_address, info = R_X86_64_RELATIVE, addend = res.address}.
C14_GotValues ==
    GotEntryWritten =>
        LET res == g_in.res
            taken == g_w.got_pos - g_in.w.got_pos
        IN CASE res.kind = "GotTlsDouble" ->
                  /\ taken = 2
                  /\ GotSlot(1) = U64Of(1)
                  /\ wrapping_add(GotSlot(2), g_in.tls.end) = res.address
                  /\ RelaUntouched
                  /\ g_w.plt_pos = g_in.w.plt_pos
             [] res.kind = "IFunc" ->
                  taken = 1 /\ GotSlot(1) = Zero64 /\ RelaUntouched
             [] res.kind = "Address" /\ ~g_in.w.is_active ->
                  taken = 1 /\ GotSlot(1) = res.address /\ RelaUntouched
             [] res.kind = "Address" /\ g_in.w.is_active ->
                  /\ taken = 1
                  /\ GotSlot(1) = Zero64
                  /\ g_w.rela_pos = g_in.w.rela_pos + 1
                  /\ g_w.rela_dyn[g_w.rela_pos] =
                       [address |-> res.got_address, addend |-> res.address, info |-> 8]
             [] OTHER -> TRUE

\* an active writer got the record of a GOT entry of the ordinary kind, whose
\* slot stays zero although res.address is not
C14_Witness ==
    /\ GotEntryWritten
    /\ g_result = "ok"
    /\ g_in.res.kind = "Address"
    /\ g_in.w.is_active
    /\ g_in.res.address # Zero64
    /\ g_w.rela_pos = 1

C14_WitnessTlsDouble ==
    GotEntryWritten /\ g_in.res.kind = "GotTlsDouble" /\ g_in.res.address = TlsStart

\* res.address is not in [tls_start, tls_end)
OutsideTls == LessThan(g_in.res.address, g_in.tls.start) \/ ~LessThan(g_in.res.address, g_in.tls.end)

\* C15: for a GotTlsOffset resolution with a got_address, process_resolution
\* writes into one GOT slot the word that added to tls_end gives res.address
\* and appends no .rela.dyn record, whether or not the relocation writer is
\* active; when res.address is outside [tls_start, tls_end) the call fails
\* with an error and has taken no GOT slot, no PLT entry and no .rela.dyn
\* slot.
C15_GotTlsOffset ==
    (g_pc # "call" /\ g_in.res.kind = "GotTlsOffset" /\ g_in.res.got_address # None) =>
        /\ g_pc = "returned"
        /\ RelaUntouched
        /\ GotEntryWritten =>
              /\ g_w.got_pos = g_in.w.got_pos + 1
              /\ wrapping_add(GotSlot(1), g_in.tls.end) = g_in.res.address
        /\ OutsideTls => g_result \in {"err_tls", "err_got"} /\ g_w = g_in.w

\* an active writer with a free .rela.dyn slot was given a GotTlsOffset
\* resolution inside the TLS segment
C15_Witness ==
    /\ GotEntryWritten
    /\ g_in.res.kind = "GotTlsOffset"
    /\ g_in.w.is_active
    /\ Len(g_in.w.rela_dyn) > 0
    /\ g_result = "ok"
    /\ GotSlot(1) # Zero64

C15_WitnessOutside ==
    /\ g_pc = "returned" /\ g_in.res.kind = "GotTlsOffset" /\ g_in.res.got_address # None
    /\ g_in.res.address = TlsEnd
    /\ g_result = "err_tls"

-----------------------------------------------------------------------------
(* Properties of apply_relocation and apply_relocations (SpecRel) *)

\* the relocations the loop handed to apply_relocation
AppliedEntries == {i \in DOMAIN r_log : r_log[i].what = "applied"}

RelOf(i) == r_in.relocations[i]
ResOf(i) == RelOf(i).target.res

\* place = section_address + offset_in_section
PlaceOf(i) == wrapping_add(r_in.section_address, U64Of(RelOf(i).offset))

\* the relaxation probe of call i found a relaxation; the r_type and the
\* addend the call went on with
RelaxedAt(i) == Relaxation_new(RelOf(i), r_log[i].out_before, RelOf(i).offset) # None
ValueIsRelocatable(i) == ResOf(i).address # Zero64 /\ r_in.args.is_relocatable
TypeAt(i) ==
    IF ~RelaxedAt(i) THEN RelOf(i).r_type
    ELSE IF ValueIsRelocatable(i) THEN RelOf(i).relaxation.relocatable
    ELSE RelOf(i).relaxation.fixed
AddendAt(i) == IF RelaxedAt(i) /\ ~ValueIsRelocatable(i) THEN Zero64 ELSE RelOf(i).addend

\* the n bytes of out from offset off (counted from 0) after call i
BytesAt(i, off, n) == SubSeq(r_log[i].out, off + 1, off + n)

\* the bytes call i wrote at its offset
ValueBytes(i) == BytesAt(i, RelOf(i).offset, TypeAt(i).byte_size)

WriterUntouched(i) == r_log[i].rw = r_log[i].rw_before

\* C11: an Absolute relocation that apply_relocation applies appends the
\* .rela.dyn record {address = place, info = R_X86_64_RELATIVE, addend =
\* resolution.address} and writes zero bytes at the place if the relocation
\* writer is active and resolution.address is not zero; otherwise it appends
\* no record and writes address + addend. A call for an Absolute relocation
\* that fails has appended a record only in the first case. No call for a
\* Relative, GotRelative, PltRelative or GotTpOff relocation changes the
\* relocation writer.
C11_AbsoluteRecords ==
    \A i \in AppliedEntries :
        LET e == r_log[i]
            dynamic == e.rw_before.is_active /\ ResOf(i).address # Zero64
        IN /\ (TypeAt(i).kind = "Absolute" /\ e.status = "ok") =>
                IF dynamic
                THEN /\ e.rw.rela_pos = e.rw_before.rela_pos + 1
                     /\ e.rw.rela_dyn[e.rw.rela_pos] =
                          [address |-> PlaceOf(i), addend |-> ResOf(i).address, info |-> 8]
                     /\ ValueBytes(i) = ZeroBytes(TypeAt(i).byte_size)
                ELSE /\ WriterUntouched(i)
                     /\ ValueBytes(i) =
                          SubSeq(wrapping_add(ResOf(i).address, AddendAt(i)), 1,
                                 TypeAt(i).byte_size)
           /\ (TypeAt(i).kind = "Absolute" /\ ~WriterUntouched(i)) => dynamic
           /\ TypeAt(i).kind \in {"Relative", "GotRelative", "PltRelative", "GotTpOff"}
                => WriterUntouched(i)

\* an Absolute relocation with an addend got its record, whose addend is the
\* target address alone
C11_Witness ==
    \E i \in AppliedEntries :
        /\ TypeAt(i).kind = "Absolute"
        /\ r_log[i].status = "ok"
        /\ RelOf(i).addend = MinusFour
        /\ r_log[i].rw.rela_pos = 1
        /\ r_log[i].rw.rela_dyn[1].addend = TlsStart

\* an Absolute relocation to a null target in a relocatable output
C11_WitnessNull ==
    \E i \in AppliedEntries :
        /\ TypeAt(i).kind = "Absolute" /\ r_log[i].status = "ok"
        /\ r_log[i].rw_before.is_active /\ ResOf(i).address = Zero64
        /\ RelOf(i).addend = MinusFour

\* call i is for a TlsGd relocation in LocalExec mode
TlsGdLocalExec(i) == TypeAt(i).kind = "TlsGd" /\ r_in.args.tls_mode = "LocalExec"

\* the four bytes before the offset of call i are there and are 66 48 8D 3D
GdPrefixBefore(i) ==
    LET o == RelOf(i).offset
    IN /\ 4 <= o /\ o <= Len(r_log[i].out_before)
       /\ SubSeq(r_log[i].out_before, o - 3, o) = GdPrefix

IsError(status) == status \notin {"ok", "panic"}

\* C16 as it is stated: in LocalExec mode a TlsGd relocation at offset o
\* whose four preceding bytes are 66 48 8D 3D overwrites out[o-4 .. o+8) with
\* 64 48 8B 04 25 00 00 00 00 48 8D 80, writes the low 32 bits of address -
\* tls_end at out[o+8 .. o+12) and returns SkipNextRelocation; with fewer
\* than four bytes before o, or other bytes, the call fails with an error and
\* leaves out as it was.
C16_AsClaimed ==
    \A i \in AppliedEntries :
        TlsGdLocalExec(i) =>
            LET e == r_log[i]
                o == RelOf(i).offset
            IN IF GdPrefixBefore(i)
               THEN /\ e.status = "ok"
                    /\ e.modifier = "SkipNextRelocation"
                    /\ BytesAt(i, o - 4, 12) = <<100, 72, 139, 4, 37, 0, 0, 0, 0, 72, 141, 128>>
                    /\ BytesAt(i, o + 8, 4) =
                         SubSeq(wrapping_sub(ResOf(i).address, r_in.args.tls_end), 1, 4)
               ELSE IsError(e.status) /\ e.out = e.out_before

\* the offset at which call i writes its value: past the rewritten
\* instruction for the TLS rewrites
FinalOffset(i) ==
    RelOf(i).offset
      + (IF r_in.args.tls_mode # "LocalExec" THEN 0
         ELSE IF TypeAt(i).kind = "TlsGd" THEN 8
         ELSE IF TypeAt(i).kind = "TlsLd" THEN 5
         ELSE 0)

\* out as the relaxation probe of call i left it
OutProbed(i) ==
    IF RelaxedAt(i)
    THEN Relaxation_apply(r_log[i].out_before, RelOf(i).offset, ValueIsRelocatable(i))
    ELSE r_log[i].out_before

\* call i is for a case the code leaves unimplemented (todo!, unwrap)
Unimplemented(i) ==
    \/ TypeAt(i).kind = "DtpOff" /\ ~r_in.args.link_static
    \/ /\ TypeAt(i).kind = "TlsLd" /\ r_in.args.tls_mode = "Preserve"
       /\ r_in.args.tlsld_got_entry = None

\* C18 as it is stated: when the offset, advanced or not, plus the byte size
\* of the relocation is beyond out, apply_relocation fails with an error and
\* has written nothing after the relaxation probe, whatever the kind of the
\* relocation.
C18_AsClaimed ==
    \A i \in AppliedEntries :
        (FinalOffset(i) + TypeAt(i).byte_size > Len(r_log[i].out_before) /\ ~Unimplemented(i))
            => IsError(r_log[i].status) /\ r_log[i].out = OutProbed(i)

\* address + addend - place, summed in another order
MinusPlace(i, base) == wrapping_add(base, wrapping_sub(AddendAt(i), PlaceOf(i)))

\* C19: the value apply_relocation writes for a relocation of a kind that
\* rewrites nothing, modulo 2^64 and cut to the byte size of the kind, with
\* place = section_address + offset_in_section and addend as the relaxation
\* probe left it: Relative is address + addend - place; GotRelative and
\* GotTpOff are got_address + addend - place; PltRelative is address + addend
\* - place when link_static and plt_address + addend - place otherwise; TpOff
\* is address - tls_end; DtpOff, when link_static, is address - tls_end +
\* addend. A GotRelative or GotTpOff relocation without a got_address, and a
\* PltRelative one without a plt_address unless link_static, fails with an
\* error.
C19_Values ==
    \A i \in AppliedEntries :
        LET e == r_log[i]
            kind == TypeAt(i).kind
            res == ResOf(i)
            Is(v) == e.status = "ok" => ValueBytes(i) = SubSeq(v, 1, TypeAt(i).byte_size)
            TlsOffset == wrapping_add(res.address, Complement(r_in.args.tls_end))
        IN CASE kind = "Relative" -> Is(MinusPlace(i, res.address))
             [] kind \in {"GotRelative", "GotTpOff"} ->
                  IF res.got_address = None THEN IsError(e.status)
                  ELSE Is(MinusPlace(i, res.got_address))
             [] kind = "PltRelative" ->
                  IF r_in.args.link_static THEN Is(MinusPlace(i, res.address))
                  ELSE IF res.plt_address = None THEN IsError(e.status)
                  ELSE Is(MinusPlace(i, res.plt_address))
             [] kind = "TpOff" -> Is(wrapping_add(TlsOffset, U64Of(1)))
             [] kind = "DtpOff" /\ r_in.args.link_static ->
                  Is(wrapping_add(wrapping_add(TlsOffset, U64Of(1)), AddendAt(i)))
             [] OTHER -> TRUE

\* a GOT-relative relocation with an addend was written at a place that is
\* not the start of the section
C19_Witness ==
    \E i \in AppliedEntries :
        /\ TypeAt(i).kind = "GotRelative"
        /\ r_log[i].status = "ok"
        /\ RelOf(i).offset = 4
        /\ RelOf(i).addend = MinusFour
        /\ ValueBytes(i) # ZeroBytes(4)

\* a PLT-relative relocation in a link that is not static, written and failed
C19_WitnessPlt ==
    /\ \E i \in AppliedEntries :
          /\ TypeAt(i).kind = "PltRelative" /\ ~r_in.args.link_static
          /\ ResOf(i).plt_address = None /\ r_log[i].status = "err_no_plt"

\* C17: in apply_relocations, a relocation is passed over exactly when the
\* relocation before it was applied and returned SkipNextRelocation; a
\* relocation that is passed over is not resolved (it cannot fail) and
\* changes neither out nor the relocation writer; the relocation after it is
\* not passed over.
C17_SkipNext ==
    /\ \A i \in DOMAIN r_log :
        LET e == r_log[i]
            after_skip == /\ i > 1
                          /\ r_log[i - 1].what = "applied"
                          /\ r_log[i - 1].status = "ok"
                          /\ r_log[i - 1].modifier = "SkipNextRelocation"
        IN /\ (e.what = "skipped") = after_skip
           /\ e.what = "skipped" => e.status = "ok" /\ e.out = e.out_before /\ WriterUntouched(i)
           /\ (i > 1 /\ r_log[i - 1].what = "skipped") => e.what # "skipped"
           /\ e.out_before = (IF i = 1 THEN r_in.out ELSE r_log[i - 1].out)
    /\ r_log # <<>> => r_log[Len(r_log)].out = r_out /\ r_log[Len(r_log)].rw = r_rw
    /\ r_result = "ok" => Len(r_log) = Len(r_in.relocations)

\* the TLS access was rewritten, the reference to an undefined symbol after
\* it was passed over, and the relocation after that was applied
C17_Witness ==
    /\ r_result = "ok"
    /\ Len(r_log) = 3
    /\ r_log[1].what = "applied" /\ r_log[1].modifier = "SkipNextRelocation"
    /\ r_log[2].what = "skipped" /\ RelOf(2) = UndefinedRelocation
    /\ r_log[3].what = "applied" /\ r_log[3].out # r_log[3].out_before

-----------------------------------------------------------------------------
(* SpecEh: the records of .eh_frame *)

\* the first relocation at or after a position of the input, 0 if none:
\* the one that belongs to the record there or to a later one
EhFirstAtOrAfter(pos) ==
    LET at == {j \in 1..Len(e_in.relocations) : e_in.relocations[j].offset >= pos}
    IN IF at = {} THEN 0 ELSE CHOOSE j \in at : \A k \in at : j <= k

\* the relocations inside the k-th record the loop took
EhInside(k) ==
    {j \in 1..Len(e_in.relocations) :
        /\ e_in.relocations[j].offset >= e_log[k].input_pos
        /\ e_in.relocations[j].offset < e_log[k].input_pos + EhSize(e_in.prefixes[k])}

\* the first pending relocation lies inside the k-th record, at its PC-begin
\* slot, and the section it targets has a resolution
EhPcBeginResolved(k) ==
    LET j == EhFirstAtOrAfter(e_log[k].input_pos)
    IN /\ j \in EhInside(k)
       /\ e_in.relocations[j].offset = e_log[k].input_pos + FDE_PC_BEGIN_OFFSET
       /\ e_in.relocations[j].target \notin {"unresolved", "undefined"}

\* the bytes of output the records before the k-th took
RECURSIVE EhCopiedBefore(_)
EhCopiedBefore(k) ==
    IF k <= 1 THEN 0
    ELSE EhCopiedBefore(k - 1)
         + (IF e_log[k - 1].copied THEN EhSize(e_in.prefixes[k - 1]) ELSE 0)

\* the entries of .eh_frame_hdr the records up to the k-th wrote
RECURSIVE EhHeadersUpTo(_)
EhHeadersUpTo(k) == IF k = 0 THEN 0 ELSE EhHeadersUpTo(k - 1) + e_log[k].headers

\* C20: an FDE the loop got through is kept exactly when the first pending
\* relocation lies inside it at the PC-begin slot and targets a section with
\* a resolution; a kept one wrote one EhFrameHdrEntry and its bytes were
\* copied to the output, with every relocation inside it applied; a dropped
\* one wrote no entry and no bytes and none of its relocations was applied;
\* and whatever was done before, the relocation pending at a record is the
\* first one at or after the start of that record, so that the relocations
\* applied in a record are relocations inside it.
C20_EhFrameFdes ==
    /\ e_st # <<>> => /\ e_st.header_offset = EhHeadersUpTo(Len(e_log))
                      /\ e_st.header_offset <= e_in.headers_len
    /\ \A k \in 1..Len(e_log) :
        /\ e_log[k].pending = EhFirstAtOrAfter(e_log[k].input_pos)
        /\ e_log[k].applied \subseteq EhInside(k)
        /\ e_log[k].output_pos = EhCopiedBefore(k)
        /\ e_log[k].completed /\ e_log[k].kind = "FDE" =>
            /\ e_log[k].kept <=> EhPcBeginResolved(k)
            /\ e_log[k].kept =>
                /\ e_log[k].headers = 1
                /\ e_log[k].copied
                /\ e_log[k].applied = EhInside(k)
            /\ ~e_log[k].kept =>
                /\ e_log[k].headers = 0
                /\ ~e_log[k].copied
                /\ e_log[k].applied = {}

\* C20 witness: an FDE with relocations inside it was dropped and the FDE
\* after it was kept, and the function returned Ok
C20_Witness ==
    /\ e_pc = "done"
    /\ e_result = "ok"
    /\ \E k \in 1..Len(e_log) - 1 :
        /\ e_log[k].kind = "FDE" /\ ~e_log[k].kept /\ Cardinality(EhInside(k)) = 2
        /\ e_log[k + 1].kind = "FDE" /\ e_log[k + 1].kept
        /\ e_log[k + 1].applied # {}

\* C20 witness: a kept FDE is followed by an FDE dropped because the
\* section its PC-begin relocation targets has no resolution
C20_WitnessUnresolved ==
    /\ e_pc = "done"
    /\ e_result = "ok"
    /\ \E k \in 1..Len(e_log) - 1 :
        /\ e_log[k].kind = "FDE" /\ e_log[k].kept
        /\ e_log[k + 1].kind = "FDE" /\ ~e_log[k + 1].kept
        /\ e_log[k + 1].pending \in EhInside(k + 1)
        /\ e_in.relocations[e_log[k + 1].pending].target = "unresolved"

\* the input position the cie_id of the k-th record refers to
EhInputCiePos(k) == e_log[k].input_pos + 4 - e_in.prefixes[k].cie_id

\* the CIEs seen before the k-th record at the position its cie_id refers to
EhCiesReferred(k) ==
    {j \in 1..(k - 1) : e_log[j].kind = "CIE" /\ e_log[j].input_pos = EhInputCiePos(k)}

\* the CIE pointer of each kept FDE, read in output coordinates, is the
\* output position of a copied CIE that was at the input position the cie_id
\* of the FDE referred to
EhCiePointersLand ==
    \A k \in 1..Len(e_log) :
        (e_log[k].kind = "FDE" /\ e_log[k].completed /\ e_log[k].kept) =>
            \E j \in EhCiesReferred(k) :
                /\ e_log[j].copied
                /\ e_log[j].output_pos = e_log[k].output_pos + 4 - e_log[k].cie_offset

\* C21 as it is stated: the CIE pointer of each kept FDE lands on the copy of
\* the CIE its cie_id referred to, and an FDE whose cie_id refers to a
\* position where no CIE was seen earlier makes the rewrite fail with an error.
C21_AsClaimed ==
    /\ EhCiePointersLand
    /\ \A k \in 1..Len(e_log) :
        (e_log[k].kind = "FDE" /\ EhCiesReferred(k) = {} /\ e_pc # "loop") =>
            e_pc = "done" /\ e_result # "ok"

\* C21: the CIE pointer of each kept FDE lands on the copy of the CIE its
\* cie_id referred to. An FDE that passes the test for keeping (its pending
\* relocation is at its PC-begin slot and targets a section with a
\* resolution) and whose cie_id refers to a position where no CIE was seen
\* earlier ends the rewrite: with an error, or with the panic of the index
\* into headers_out when .eh_frame_hdr has no entry left. Any other FDE is
\* not kept, and its cie_id is not looked at: it is passed over, or the
\* rewrite fails because its PC-begin symbol is not defined in the file.
C21_CiePointers ==
    /\ EhCiePointersLand
    /\ \A k \in 1..Len(e_log) :
        (e_log[k].kind = "FDE" /\ EhCiesReferred(k) = {}) =>
            IF EhPcBeginResolved(k)
            THEN /\ ~e_log[k].completed
                 /\ ~e_log[k].copied
                 /\ k = Len(e_log)
                 /\ \/ e_pc = "done" /\ e_result \in {"err_cie_pointer", "err_frame_ptr", "err_no_cie"}
                    \/ e_pc = "panicked" /\ e_st.header_offset = e_in.headers_len
            ELSE /\ ~e_log[k].kept
                 /\ e_log[k].completed \/ (e_pc = "done" /\ e_result = "err_pc_begin")

\* C21 witness: the rewrite returned Ok with a kept FDE whose CIE pointer
\* had to change, a record before it having been dropped
C21_Witness ==
    /\ e_pc = "done"
    /\ e_result = "ok"
    /\ \E k \in 1..Len(e_log) :
        /\ e_log[k].kind = "FDE" /\ e_log[k].kept
        /\ e_log[k].cie_offset # e_in.prefixes[k].cie_id
        /\ e_log[k].cie_offset > 4

\* C21 witness: the rewrite failed at an FDE that refers to no CIE
C21_WitnessDangling ==
    /\ e_pc = "done"
    /\ e_result = "err_no_cie"
    /\ \E k \in 1..Len(e_log) : e_log[k].kind = "FDE" /\ EhCiesReferred(k) = {}

-----------------------------------------------------------------------------
(* SpecSort: the table of .eh_frame_hdr after the post-pass *)

\* the post-pass has sorted; the write has returned Ok
SortDone == h_pc \in {"chmod", "done"}
SortSucceeded == h_pc = "done" /\ h_result = "ok"

\* where the EhFrameHdrEntry array lies in the file
SortTableStart == h_in.section_layouts["eh_frame_hdr"].file_offset + EhFrameHdrSize
SortTableEnd ==
    h_in.section_layouts["eh_frame_hdr"].file_offset
      + h_in.section_layouts["eh_frame_hdr"].file_size

\* the EhFrameHdrEntry array of the file as it is, and as the writers left it
SortTable == EntriesOf(SubSeq(h_mmap, SortTableStart + 1, SortTableEnd))
SortTableBefore == EntriesOf(SubSeq(h_in.mmap, SortTableStart + 1, SortTableEnd))

\* a <= b for two i32 given as their little-endian bytes: the sign first,
\* then the bytes from the most significant down
RECURSIVE BytesLeqFrom(_, _, _)
BytesLeqFrom(a, b, k) ==
    IF k = 0 THEN TRUE
    ELSE IF a[k] # b[k] THEN a[k] < b[k]
    ELSE BytesLeqFrom(a, b, k - 1)

I32Leq(a, b) ==
    LET neg_a == a[4] >= 128
        neg_b == b[4] >= 128
    IN IF neg_a # neg_b THEN neg_a ELSE BytesLeqFrom(a, b, 4)

\* C22: after a successful write the EhFrameHdrEntry array that follows
\* the header of .eh_frame_hdr is in non-decreasing order of frame_ptr, read
\* as a signed 32-bit integer, in whatever order the entries were written.
C22_EntriesSorted ==
    SortSucceeded =>
        \A k \in 1..(Len(SortTable) - 1) :
            I32Leq(SubSeq(SortTable[k], 1, 4), SubSeq(SortTable[k + 1], 1, 4))

\* C22 witness: a write succeeded on three entries that were written in
\* descending order, with negative and positive frame_ptr
C22_Witness ==
    /\ SortSucceeded
    /\ Len(SortTable) = 3
    /\ \A k \in 1..2 : ~I32Leq(SubSeq(SortTableBefore[k], 1, 4), SubSeq(SortTableBefore[k + 1], 1, 4))
    /\ SortTableBefore[3][4] >= 128
    /\ SortTableBefore[1][4] < 128

\* how many times an entry occurs in a table
SortOccurrences(table, e) == Cardinality({k \in 1..Len(table) : table[k] = e})

\* C30: the sort only permutes the entries: each pair (frame_ptr,
\* frame_info_ptr) occurs after the sort as many times as before it, and the
\* EhFrameHdr and every byte of the other sections are as they were.
C30_SortPermutes ==
    SortDone =>
        /\ Len(h_mmap) = Len(h_in.mmap)
        /\ SubSeq(h_mmap, 1, SortTableStart) = SubSeq(h_in.mmap, 1, SortTableStart)
        /\ SubSeq(h_mmap, SortTableEnd + 1, Len(h_mmap))
             = SubSeq(h_in.mmap, SortTableEnd + 1, Len(h_in.mmap))
        /\ Len(SortTable) = Len(SortTableBefore)
        /\ \A k \in 1..Len(SortTableBefore) :
            SortOccurrences(SortTable, SortTableBefore[k])
              = SortOccurrences(SortTableBefore, SortTableBefore[k])

\* C30 witness: the sort moved entries, two of which have the same frame_ptr
C30_Witness ==
    /\ SortDone
    /\ SortTable # SortTableBefore
    /\ \E j, k \in 1..Len(SortTableBefore) :
        /\ j # k
        /\ SubSeq(SortTableBefore[j], 1, 4) = SubSeq(SortTableBefore[k], 1, 4)

-----------------------------------------------------------------------------
(* SpecEh: entry_count *)

\* the mem_size of .eh_frame_hdr in a layout whose only object is this one:
\* the EhFrameHdr and the entries reserved for the object
EhHdrMemSize == EhFrameHdrSize + EhFrameHdrEntrySize * e_in.headers_len

\* C23 as it is stated: after a successful emission the entry_count of the
\* EhFrameHdr is the number of EhFrameHdrEntry records emitted for kept FDEs.
C23_AsClaimed ==
    (e_pc = "done" /\ e_result = "ok") =>
        eh_frame_hdr_entry_count(EhHdrMemSize) = e_st.header_offset

-----------------------------------------------------------------------------
(* SpecDyn: the .dynamic table *)

DynSucceeded == d_pc = "done" /\ d_result = "ok"

\* the entries of .dynamic that were written at least once
DynWritten == {k \in 1..Len(d_out.table) : d_out.table[k].writes > 0}

\* the tags of the table, in the order INIT .. NULL
DynTagOrder ==
    <<"Init", "Fini", "InitArray", "InitArraySize", "FiniArray", "FiniArraySize", "StrTab",
      "StrSize", "SymTab", "SymEnt", "Debug", "Rela", "RelaSize", "RelaEnt", "RelaCount",
      "Flags", "Flags1", "Null">>

\* C24: no entry of .dynamic is ever written unless pie is set; when the
\* emission succeeds with pie set the table is NUM_DYNAMIC_ENTRIES entries,
\* their tags in the fixed order, the last one Null with value 0, each
\* written once; and no entry is ever written twice or beyond the table.
C24_DynamicTable ==
    /\ d_in # <<>> =>
        /\ ~d_in.pie => DynWritten = {}
        /\ \A k \in 1..Len(d_out.table) : d_out.table[k].writes <= 1
        /\ d_out.next <= Len(d_out.table) + 1
        /\ DynWritten = 1..(d_out.next - 1)
    /\ (DynSucceeded /\ d_in.pie) =>
        /\ Len(d_out.table) = NUM_DYNAMIC_ENTRIES
        /\ Len(d_out.table) = Len(DynTagOrder)
        /\ \A k \in 1..Len(d_out.table) :
            /\ d_out.table[k].tag = DynTagOrder[k]
            /\ d_out.table[k].writes = 1
        /\ d_out.table[Len(d_out.table)].value = 0
        /\ d_out.table[15].value * RelaEntrySize = d_in.layout.size["RELA_DYN"]

\* C24 witness: an emission with pie set succeeded, with one entry in .rela.dyn
C24_Witness ==
    /\ DynSucceeded
    /\ d_in.pie
    /\ d_out.table[15] = [tag |-> "RelaCount", value |-> 1, writes |-> 1]
    /\ d_out.table[18].writes = 1

\* C24 witness: an emission without pie succeeded with a .dynamic buffer reserved
C24_WitnessNoPie == DynSucceeded /\ ~d_in.pie /\ Len(d_out.table) = NUM_DYNAMIC_ENTRIES

-----------------------------------------------------------------------------
(* C25: section header names and .shstrtab *)

\* the sections the closure in progress has already been called for
ShdrVisited == IF sh_i = 0 THEN 0 ELSE sh_i - 1

\* the name of section i, NUL-terminated, starts at byte offset off of .shstrtab
ShdrNameStartsAt(i, off) ==
    LET name == sh_in.sections[i].name IN
    /\ off + Len(name) + 1 <= Len(sh_str.bytes)
    /\ \A k \in 1..Len(name) : sh_str.bytes[off + k] = name[k]
    /\ sh_str.bytes[off + Len(name) + 1] = 0

\* C25: while write_section_headers runs, name_offset is the sum of
\* len(name) + 1 over the sections with an output index visited so far, and
\* one header was written for each of them; while
\* write_section_header_strings runs, the bytes taken from .shstrtab are the
\* same sum; and when both have returned, the header of every section with an
\* output index carries in its name field the offset at which that section's
\* NUL-terminated name starts in .shstrtab, and the headers written are
\* exactly the slots reserved.
C25_SectionNames ==
    /\ (sh_pc = "headers" /\ sh_hdr.status = "ok") =>
          /\ sh_hdr.name_offset = ShdrNameBytes(sh_in.sections, ShdrVisited)
          /\ sh_hdr.next - 1 = Cardinality(ShdrEmitted(sh_in.sections, ShdrVisited))
    /\ (sh_pc = "strings" /\ sh_str.status = "ok") =>
          sh_str.taken = ShdrNameBytes(sh_in.sections, ShdrVisited)
    /\ (sh_pc = "done" /\ sh_result = "ok") =>
          /\ Len(sh_hdr.entries) = Cardinality(ShdrEmitted(sh_in.sections, Len(sh_in.sections)))
          /\ sh_hdr.next - 1 = Len(sh_hdr.entries)
          /\ \A i \in ShdrEmitted(sh_in.sections, Len(sh_in.sections)) :
                LET e == sh_hdr.entries[Cardinality(ShdrEmitted(sh_in.sections, i))] IN
                /\ e.section = i
                /\ e.name = ShdrNameBytes(sh_in.sections, i - 1)
                /\ ShdrNameStartsAt(i, e.name)

\* both writers returned for three sections, the second one without an
\* output index, the others with different non-empty names
C25_Witness ==
    /\ sh_pc = "done"
    /\ sh_result = "ok"
    /\ Len(sh_in.sections) = 3
    /\ ShdrEmitted(sh_in.sections, 3) = {1, 3}
    /\ sh_in.sections[1].name = <<98, 97>>
    /\ sh_in.sections[2].name = <<97>>
    /\ sh_in.sections[3].name = <<97>>
    /\ sh_hdr.entries[2].name = 3

-----------------------------------------------------------------------------
(* C26: the symbol table writer's offsets and buckets *)

RECURSIVE SymNameBytes(_)
\* len(name) + 1 summed over the first n define_symbol calls
SymNameBytes(n) == IF n = 0 THEN 0 ELSE SymNameBytes(n - 1) + Len(y_log[n].name) + 1

\* how many of the first n calls had this is_local
SymCalls(n, is_local) == Cardinality({j \in 1..n : y_log[j].is_local = is_local})

\* the entry the k-th call took
SymEntryOf(k) ==
    LET bucket == IF y_log[k].is_local THEN y_w.local_entries ELSE y_w.global_entries
    IN bucket.entries[SymCalls(k, y_log[k].is_local)]

\* name + NUL of the k-th call lies in the string buffer from byte off on
SymNameAt(k, off) ==
    LET name == y_log[k].name IN
    /\ off + Len(name) + 1 <= y_w.strings.taken
    /\ \A i \in 1..Len(name) : y_w.strings.bytes[off + i] = name[i]
    /\ y_w.strings.bytes[off + Len(name) + 1] = 0

\* C26: after any sequence of define_symbol calls that returned,
\* string_offset is the start offset plus the sum of len(name) + 1 over the
\* symbols defined, and that sum is the number of bytes taken from the string
\* buffer; the local bucket gave one entry per call with is_local and the
\* global bucket one per other call; and the entry of each call carries in
\* name the value string_offset had before that call, where the buffer holds
\* the name and its NUL.
C26_SymbolWriter ==
    (y_pc # "idle" /\ y_w.status = "ok") =>
        /\ y_w.string_offset = y_in.start_string_offset + SymNameBytes(Len(y_log))
        /\ y_w.strings.taken = SymNameBytes(Len(y_log))
        /\ y_w.local_entries.taken = SymCalls(Len(y_log), TRUE)
        /\ y_w.global_entries.taken = SymCalls(Len(y_log), FALSE)
        /\ \A k \in 1..Len(y_log) :
              /\ SymEntryOf(k).symbol = y_log[k].symbol
              /\ SymEntryOf(k).name = y_in.start_string_offset + SymNameBytes(k - 1)
              /\ SymNameAt(k, SymNameBytes(k - 1))

\* three symbols, a global one between two local ones, defined from start
\* offset 5, and check_exhausted passed
C26_Witness ==
    /\ y_pc = "done"
    /\ y_result = "ok"
    /\ y_in.start_string_offset = 5
    /\ Len(y_log) = 3
    /\ y_log[1].is_local /\ ~y_log[2].is_local /\ y_log[3].is_local
    /\ y_log[1].name = <<98, 97>> /\ y_log[2].name = <<97>>
    /\ y_w.local_entries.entries[2].name = 10
    /\ y_w.global_entries.entries[1].name = 8

-----------------------------------------------------------------------------
(* C27: offsets that go backward (SpecSplit) *)

\* the layouts in the order of line 216
SplitSorted == SortByKey(SectionAllocations(sa_layouts))

\* the positions of the sorted order whose section starts before the end of
\* the section before it
SplitBackwardAt ==
    {k \in 2..Len(SplitSorted) :
        SplitSorted[k].offset < SplitSorted[k - 1].offset + SplitSorted[k - 1].size}

\* two distinct sections whose file ranges share a byte
SplitOverlap(id1, id2) ==
    /\ id1 # id2
    /\ \E c \in 0..(MaxOffset + MaxSize) :
        /\ sa_layouts[id1].file_offset <= c
        /\ c < sa_layouts[id1].file_offset + sa_layouts[id1].file_size
        /\ sa_layouts[id2].file_offset <= c
        /\ c < sa_layouts[id2].file_offset + sa_layouts[id2].file_size

SplitEnded == sa_pc \in {"returned", "panicked"}

\* every section before position k of the sorted order ends inside the mmap
SplitFitsBefore(k) ==
    \A j \in 1..(k - 1) : SplitSorted[j].offset + SplitSorted[j].size <= sa_mmap_len

C27_WitnessSlice ==
    /\ sa_pc = "panicked"
    /\ sa_st.status = "panic_slice"
    /\ SplitBackwardAt # {}

-----------------------------------------------------------------------------
(* C28: what one call of process_resolution consumes (SpecGot) *)

GotCallEnded == g_pc \in {"returned", "panicked"}

\* the GOT slots, PLT bytes and .rela.dyn entries the call took
GotTaken == g_w.got_pos - g_in.w.got_pos
PltTaken == g_w.plt_pos - g_in.w.plt_pos
RelaTaken == g_w.rela_pos - g_in.w.rela_pos

\* C28: a call of process_resolution with no got_address takes nothing, with
\* or without a plt_address; a call that returns Ok takes two GOT slots and
\* no PLT entry for GotTlsDouble, and otherwise one GOT slot, and one PLT
\* entry of 16 bytes exactly when plt_address is present; every call, failing
\* ones included, takes no more than that, at most one .rela.dyn entry, and no
\* .rela.dyn entry when the relocation writer is inactive.
C28_SlotsConsumed ==
    GotCallEnded =>
        /\ g_in.res.got_address = None =>
              GotTaken = 0 /\ PltTaken = 0 /\ RelaTaken = 0 /\ g_result = "ok"
        /\ (g_result = "ok" /\ g_in.res.got_address # None) =>
              IF g_in.res.kind = "GotTlsDouble"
              THEN GotTaken = 2 /\ PltTaken = 0
              ELSE /\ GotTaken = 1
                   /\ PltTaken = IF g_in.res.plt_address # None THEN 16 ELSE 0
        /\ GotTaken <= IF g_in.res.kind = "GotTlsDouble" THEN 2 ELSE 1
        /\ PltTaken \in {0, 16}
        /\ PltTaken = 16 =>
              /\ g_in.res.plt_address # None
              /\ g_in.res.kind # "GotTlsDouble"
              /\ GotTaken = 1
        /\ RelaTaken \in {0, 1}
        /\ ~g_in.w.is_active => RelaTaken = 0

\* a call with both addresses and an active writer returned Ok having taken
\* one GOT slot, one PLT entry and one .rela.dyn entry
C28_Witness ==
    /\ g_pc = "returned"
    /\ g_result = "ok"
    /\ g_in.res.got_address # None
    /\ g_in.res.plt_address # None
    /\ g_in.w.is_active
    /\ GotTaken = 1 /\ PltTaken = 16 /\ RelaTaken = 1

\* a GotTlsDouble call with a plt_address returned Ok having taken two GOT
\* slots and nothing of a PLT that had an entry left
C28_WitnessTlsDouble ==
    /\ g_pc = "returned"
    /\ g_result = "ok"
    /\ g_in.res.kind = "GotTlsDouble"
    /\ g_in.res.plt_address # None
    /\ Len(g_in.w.plt) = 16
    /\ GotTaken = 2 /\ PltTaken = 0

\* a call with a plt_address and no got_address returned Ok having taken
\* nothing of a GOT and a PLT that had entries left
C28_WitnessNoGot ==
    /\ g_pc = "returned"
    /\ g_in.res.got_address = None
    /\ g_in.res.plt_address # None
    /\ Len(g_in.w.got) > 0 /\ Len(g_in.w.plt) = 16
    /\ GotTaken = 0 /\ PltTaken = 0

-----------------------------------------------------------------------------
(* C29: Output::write before set_size (Spec) *)

\* C29: as long as set_size was never called, no step removes, creates, sizes
\* or maps the output file, and a call of Output::write fails at once: with
\* the assertion "set_size was never called" in Background mode and with the
\* error "set_size was never called" in Regular mode.
C29_WriteBeforeSetSize ==
    [][calls.set_size = 0 =>
          /\ file' = file /\ mapped' = mapped /\ mmap' = mmap
          /\ (pc = "ready" /\ pc' # "ready") =>
                IF creator.kind = "Background"
                THEN pc' = "panicked" /\ result' = "none"
                ELSE pc' = "done" /\ result' = "err_set_size_never_called"]_vars

\* write was called first in Background mode and panicked; the output of an
\* earlier link is still at the path, unmapped
C29_Witness ==
    /\ calls.set_size = 0
    /\ creator.kind = "Background"
    /\ pc = "panicked"
    /\ file = OldFile
    /\ ~mapped

\* write was called first in Regular mode and returned the error; no file
\* was created
C29_WitnessRegular ==
    /\ calls.set_size = 0
    /\ creator.kind = "Regular"
    /\ pc = "done"
    /\ result = "err_set_size_never_called"
    /\ file = NoFile
    /\ ~mapped

====
